---- MODULE Spec2Model ----
(***************************************************************************)
(* ClarityDash analytics core: the persisted transaction collection, the   *)
(* aggregation routes (summary, spending-by-category, savings-projection,  *)
(* monthly-trends) and the forecasting route (predict-expenses with its    *)
(* SimpleLinearRegression).                                                *)
(*                                                                         *)
(* Representation.                                                         *)
(*  - An instant is modelled at day granularity as one integer,            *)
(*    Date(y, m, d) = (12*y + m - 1)*32 + d, so that instants compare as   *)
(*    integers and $year / $month are arithmetic on them (UTC calendar).   *)
(*  - An amount is a count of cents (the schema admits at most two         *)
(*    fractional digits).  JavaScript doubles are modelled by exact        *)
(*    rationals <<num, den>> with den > 0; every number that the code      *)
(*    rounds to two decimals (Math.round(v * 100) / 100, toFixed(2)) is    *)
(*    stored as its integer count of hundredths, computed by Round2.       *)
(***************************************************************************)
EXTENDS Integers, Sequences, FiniteSets, TLC

(* ------------------------------ bounds --------------------------------- *)
\* Number of consecutive calendar months, from October 2024, in which
\* transactions are dated and through which the clock moves.
NumMonths == 4
\* Amounts range over 1 .. MaxAmount cents.
MaxAmount == 3
\* At most MaxTx documents are persisted at once in the full system.
MaxTx == 2
\* The months query parameter ranges over 1 .. MaxMonthsParam and over-cap values.
MaxMonthsParam == 3
\* At most MaxInterleaved writes take effect while one summary request is under way.
MaxInterleaved == 2

(* --------------------------- program constants ------------------------- *)
PredictMaxMonths == 12
SavingsMaxMonths == 12
TrendsMaxMonths == 24
RecentWindow == 3
MinDataPoints == 2
InsightsMaxMonths == 6
HighFrequencyCount == 5
TrendChangePercent == 10

(* ------------------------------- dates --------------------------------- *)
Date(y, m, d) == (12 * y + m - 1) * 32 + d
MonthIdx(date) == date \div 32
\* $year and $month of the aggregation pipeline (UTC).
YearOf(date) == MonthIdx(date) \div 12
MonthOf(date) == (MonthIdx(date) % 12) + 1
DayOf(date) == date % 32

IsLeap(y) == (y % 4 = 0 /\ y % 100 # 0) \/ y % 400 = 0
DaysInMonth(mi) ==
    LET m == (mi % 12) + 1
        y == mi \div 12
    IN  IF m = 2 THEN (IF IsLeap(y) THEN 29 ELSE 28)
        ELSE IF m \in {4, 6, 9, 11} THEN 30 ELSE 31

\* Date.prototype.setMonth(getMonth() - k): the month moves back k months, the
\* day of month is kept, and a day past the end of the target month overflows
\* into the month after it.
SetMonthBack(date, k) ==
    LET mi == MonthIdx(date) - k
        d == DayOf(date)
    IN  IF d > DaysInMonth(mi)
        THEN (mi + 1) * 32 + (d - DaysInMonth(mi))
        ELSE mi * 32 + d

FirstMonthIdx == MonthIdx(Date(2024, 10, 1))
MonthIdxs == FirstMonthIdx .. (FirstMonthIdx + NumMonths - 1)

\* Days of the month on which transactions are dated / the clock stands.
TxDays == {3, 20}
ClockDays == {10, 31}
ClockDates ==
    {c \in {mi * 32 + d : mi \in MonthIdxs, d \in ClockDays} :
        DayOf(c) <= DaysInMonth(MonthIdx(c))}

SetMin(S) == CHOOSE x \in S : \A z \in S : x <= z
SetMax(S) == CHOOSE x \in S : \A z \in S : x >= z

(* ------------------------------ universe ------------------------------- *)
Users == {"u1", "u2"}
Types == {"income", "expense"}
Amounts == 1 .. MaxAmount
\* hours east of UTC of the server's local time zone (a zone west of UTC
\* behaves as UTC at day granularity)
TZOffsets == {0, 1}
\* values of the months query parameter: small ones and one above each cap
MonthsParams == (1 .. MaxMonthsParam) \cup {PredictMaxMonths + 1, TrendsMaxMonths + 1}
\* an optional date bound of a query is the empty set or a singleton
OptDates(D) == {{}} \cup {{d} : d \in D}

VARIABLES
    db,          \* the Transaction collection: a set of documents
    now,         \* the server clock (new Date())
    tz,          \* the server's time zone offset
    resp,        \* the response to the most recent request
    regression,  \* the SimpleLinearRegression object of the most recent
                 \* predict-expenses request and what fit() did
    users,       \* the User collection: the ids of the registered users
    auth,        \* what the auth middleware did with the most recent request
    dashboard,   \* the state of the client's Dashboard component
    inflight,    \* the get-financial-summary request whose queries are under
                 \* way while other requests are served
    observed     \* the first response a user has been seen to receive, with
                 \* that user's documents at the time

vars == <<db, now, tz, resp, regression, users, auth, dashboard, inflight,
          observed>>

\* no request has been served yet
NoResponse == [req |-> [op |-> "none"], status |-> 0]

\* the Dashboard component as mounted: useState(true) for loading, null for
\* the data and the error, [] for the categories; no request under way
\* no get-financial-summary request is under way and none has been followed
\* through its queries
NoSummaryRequest == [pc |-> "idle", history |-> <<>>]

\* the five requests of fetchDashboardData
DashboardRequests ==
    {"summary", "spending-by-category", "savings-projection", "predict-expenses",
     "categories"}

NoDashboard ==
    [loading |-> TRUE, summary |-> {}, spendingData |-> {}, savingsData |-> {},
     prediction |-> {}, categories |-> {}, error |-> {},
     user |-> "", pending |-> {}, results |-> [r \in DashboardRequests |-> {}],
     settled |-> FALSE]

(* --------------------------- exact arithmetic -------------------------- *)
Abs(i) == IF i < 0 THEN 0 - i ELSE i

RECURSIVE GCD(_, _)
GCD(a, b) == IF b = 0 THEN a ELSE GCD(b, a % b)

\* a rational in lowest terms with a positive denominator
Norm(q) ==
    LET s == IF q[2] < 0 THEN 0 - 1 ELSE 1
        g == GCD(Abs(q[1]), Abs(q[2]))
    IN  <<(s * q[1]) \div g, (s * q[2]) \div g>>

Rat(i) == <<i, 1>>
RZero == Rat(0)
RAdd(p, q) == Norm(<<p[1] * q[2] + q[1] * p[2], p[2] * q[2]>>)
RSub(p, q) == Norm(<<p[1] * q[2] - q[1] * p[2], p[2] * q[2]>>)
RMul(p, q) == Norm(<<p[1] * q[1], p[2] * q[2]>>)
\* q is not zero
RDiv(p, q) == Norm(<<p[1] * q[2], p[2] * q[1]>>)
RLess(p, q) == p[1] * q[2] < q[1] * p[2]
RAbs(q) == <<Abs(q[1]), q[2]>>
RMax(p, q) == IF RLess(p, q) THEN q ELSE p
RMin(p, q) == IF RLess(q, p) THEN q ELSE p

\* Math.round: the nearest integer, a tie going up.
MathRound(q) == (2 * q[1] + q[2]) \div (2 * q[2])
\* Math.round(v * 100) / 100 for v in hundredths already (amounts are in
\* cents): the result as a count of hundredths.
Round2(q) == MathRound(q)

RECURSIVE SumSeq(_)
SumSeq(s) == IF s = <<>> THEN 0 ELSE Head(s) + SumSeq(Tail(s))

RECURSIVE RSumSeq(_)
RSumSeq(s) == IF s = <<>> THEN RZero ELSE RAdd(Head(s), RSumSeq(Tail(s)))

(* ------------------------ aggregation pipeline ------------------------- *)
\* $sum of '$amount' over a set of documents
RECURSIVE SumAmount(_)
SumAmount(S) ==
    IF S = {} THEN 0
    ELSE LET t == CHOOSE t \in S : TRUE
         IN  t.amount + SumAmount(S \ {t})

\* date: { $gte: start, $lte: end }, each bound optional
InRange_EndExclusive(date, start, end) ==
    /\ \A s \in start : date >= s
    /\ \A e \in end : date < e
InRange(date, start, end) ==
    /\ \A s \in start : date >= s
    /\ \A e \in end : date <= e

\* $match on user, optionally on type, and on the date filter
Match_SkipNewest(S, user, types, start, end) ==
    {t \in S : /\ t.user = user /\ t.type \in types /\ InRange(t.date, start, end)
               /\ \E z \in S : z.id > t.id}
Match_AnyUser(S, user, types, start, end) ==
    {t \in S : t.type \in types /\ InRange(t.date, start, end)}
Match(S, user, types, start, end) ==
    {t \in S : t.user = user /\ t.type \in types /\ InRange(t.date, start, end)}

\* _id: { year: { $year: '$date' }, month: { $month: '$date' } }
MonthKey(t) == <<YearOf(t.date), MonthOf(t.date)>>

\* $sort: { '_id.year': 1, '_id.month': 1 }
KeyBefore(a, b) == a[1] < b[1] \/ (a[1] = b[1] /\ a[2] < b[2])

RECURSIVE SortKeys(_)
SortKeys(K) ==
    IF K = {} THEN <<>>
    ELSE LET k == CHOOSE k \in K : \A j \in K : ~KeyBefore(j, k)
         IN  <<k>> \o SortKeys(K \ {k})

\* $group by month then $sort, as a sequence of the groups (sets of documents)
MonthGroups(M) ==
    LET keys == SortKeys({MonthKey(t) : t \in M})
    IN  [i \in 1 .. Len(keys) |->
            [key |-> keys[i], docs |-> {t \in M : MonthKey(t) = keys[i]}]]

OfType(S, type) == {t \in S : t.type = type}

(* ------------------------ SimpleLinearRegression ----------------------- *)
\* new SimpleLinearRegression(): slope = intercept = 0, fit not yet called
NewRegression ==
    [called |-> FALSE, threw |-> FALSE, slope |-> RZero, intercept |-> RZero,
     denominator |-> RZero]

\* this.intercept = yMean - this.slope * xMean
InterceptOf_NoXMean(yMean, slope, xMean) == RSub(yMean, slope)
InterceptOf(yMean, slope, xMean) == RSub(yMean, RMul(slope, xMean))

\* fit(x, y): the object after the call; threw records the thrown Error and
\* denominator the local of that name (zero when fit threw before computing it)
Fit(x, y) ==
    LET n == Len(x)
    IN  IF n # Len(y) \/ n < 2
        THEN [NewRegression EXCEPT !.called = TRUE, !.threw = TRUE]
        ELSE LET xMean == RDiv(Rat(SumSeq(x)), Rat(n))
                 yMean == RDiv(Rat(SumSeq(y)), Rat(n))
                 numerator ==
                     RSumSeq([i \in 1 .. n |->
                         RMul(RSub(Rat(x[i]), xMean), RSub(Rat(y[i]), yMean))])
                 denominator ==
                     RSumSeq([i \in 1 .. n |->
                         RMul(RSub(Rat(x[i]), xMean), RSub(Rat(x[i]), xMean))])
                 slope ==
                     IF denominator # RZero THEN RDiv(numerator, denominator)
                     ELSE RZero
             IN  [called |-> TRUE, threw |-> FALSE, slope |-> slope,
                  intercept |-> InterceptOf(yMean, slope, xMean),
                  denominator |-> denominator]

\* predict(x)
Predict(reg, xv) == RAdd(RMul(reg.slope, Rat(xv)), reg.intercept)

\* return ssTot !== 0 ? 1 - (ssRes / ssTot) : 0
R2Of_OneWhenFlat(ssRes, ssTot) ==
    IF ssTot # RZero THEN RSub(Rat(1), RDiv(ssRes, ssTot)) ELSE Rat(1)
R2Of(ssRes, ssTot) ==
    IF ssTot # RZero THEN RSub(Rat(1), RDiv(ssRes, ssTot)) ELSE RZero

\* getR2(x, y)
GetR2(reg, x, y) ==
    LET n == Len(x)
        yMean == RDiv(Rat(SumSeq(y)), Rat(n))
        ssRes ==
            RSumSeq([i \in 1 .. n |->
                LET e == RSub(Rat(y[i]), Predict(reg, x[i])) IN RMul(e, e)])
        ssTot ==
            RSumSeq([i \in 1 .. n |->
                LET e == RSub(Rat(y[i]), yMean) IN RMul(e, e)])
    IN  R2Of(ssRes, ssTot)

(* --------------------------- predict-expenses -------------------------- *)
Min(a, b) == IF a < b THEN a ELSE b

\* startDate.setMonth(endDate.getMonth() - monthsToAnalyze)
WindowStart(months, cap) == SetMonthBack(now, Min(months, cap))

\* the $match / $group / $sort pipeline of predict-expenses
MonthlyExpenseData(user, months) ==
    LET M == Match(db, user, {"expense"}, {WindowStart(months, PredictMaxMonths)}, {now})
        g == MonthGroups(M)
    IN  [i \in 1 .. Len(g) |->
            [id |-> g[i].key,
             totalExpenses |-> SumAmount(g[i].docs),
             transactionCount |-> Cardinality(g[i].docs)]]

\* if (monthlyData.length < 2)
InsufficientData_OnlyEmpty(monthlyData) == Len(monthlyData) < 1
InsufficientData(monthlyData) == Len(monthlyData) < MinDataPoints

\* Math.max(0, v)
ClampNonNegative_None(q) == q
ClampNonNegative(q) == RMax(RZero, q)

\* Math.min(100, Math.max(0, r2 * 100))
ConfidenceOf_Fraction(r2) == RMin(Rat(100), RMax(RZero, r2))
ConfidenceOf(r2) == RMin(Rat(100), RMax(RZero, RMul(r2, Rat(100))))

TrendDirection_NoStable(slope) ==
    IF RLess(slope, RZero) THEN "decreasing" ELSE "increasing"
TrendDirection(slope) ==
    IF RLess(RZero, slope) THEN "increasing"
    ELSE IF RLess(slope, RZero) THEN "decreasing" ELSE "stable"

\* array.slice(-3)
LastElements_First(s, k) == IF Len(s) <= k THEN s ELSE SubSeq(s, 1, k)
LastElements(s, k) ==
    IF Len(s) <= k THEN s ELSE SubSeq(s, Len(s) - k + 1, Len(s))

\* the mean of the totals of monthlyData.slice(-3)
RecentAverage(monthlyData) ==
    LET recentMonths == LastElements(monthlyData, RecentWindow)
    IN  RDiv(Rat(SumSeq([i \in 1 .. Len(recentMonths) |-> recentMonths[i].totalExpenses])),
             Rat(Len(recentMonths)))

\* the body of the 200 response, all two-decimal numbers in hundredths
PredictionData(reg, monthlyData) ==
    LET x == [i \in 1 .. Len(monthlyData) |-> i - 1]
        y == [i \in 1 .. Len(monthlyData) |-> monthlyData[i].totalExpenses]
        nextMonthIndex == Len(x)
        predictedExpense == ClampNonNegative(Predict(reg, nextMonthIndex))
        confidence == ConfidenceOf(GetR2(reg, x, y))
        recentAverage == RecentAverage(monthlyData)
    IN  [prediction |-> Round2(predictedExpense),
         confidence |-> Round2(RMul(confidence, Rat(100))),
         trend |-> [direction |-> TrendDirection(reg.slope),
                    strength |-> Round2(RAbs(reg.slope))],
         comparison |-> [recentAverage |-> Round2(recentAverage),
                         difference |-> Round2(RSub(predictedExpense, recentAverage))],
         analysis |-> [monthsAnalyzed |-> Len(monthlyData),
                       dataPoints |->
                           [i \in 1 .. Len(monthlyData) |->
                               [month |-> monthlyData[i].id,
                                expenses |-> monthlyData[i].totalExpenses,
                                transactions |-> monthlyData[i].transactionCount]]]]

\* GET /api/ml/predict-expenses for the authenticated user
PredictExpenses(user, months) ==
    LET monthlyData == MonthlyExpenseData(user, months)
        x == [i \in 1 .. Len(monthlyData) |-> i - 1]
        y == [i \in 1 .. Len(monthlyData) |-> monthlyData[i].totalExpenses]
        reg == Fit(x, y)
        req == [op |-> "predict-expenses", user |-> user, months |-> months, at |-> now]
    IN  /\ IF InsufficientData(monthlyData)
           THEN /\ regression' = NewRegression
                /\ resp' = [req |-> req, status |-> 400, success |-> FALSE,
                            message |-> "Insufficient data for prediction"]
           ELSE /\ regression' = reg
                /\ IF reg.threw
                   THEN resp' = [req |-> req, status |-> 500, success |-> FALSE,
                                 message |-> "Server error"]
                   ELSE resp' = [req |-> req, status |-> 200, success |-> TRUE,
                                 data |-> PredictionData(reg, monthlyData)]
        /\ UNCHANGED <<db, now, tz, users>>

(* -------------------------- analytics: summary ------------------------- *)
\* incomeResult[0]?.total || 0 after $group { _id: null, total: { $sum } }:
\* the group exists only when some document matched
GroupTotalOrZero(M) == IF M = {} THEN 0 ELSE SumAmount(M)

SummaryData(user, start, end) ==
    LET totalIncome == GroupTotalOrZero(Match(db, user, {"income"}, start, end))
        totalExpenses == GroupTotalOrZero(Match(db, user, {"expense"}, start, end))
    IN  [totalIncome |-> totalIncome,
         totalExpenses |-> totalExpenses,
         netSavings |-> totalIncome - totalExpenses,
         \* countDocuments({ user, ...dateFilter })
         transactionCount |-> Cardinality(Match(db, user, Types, start, end)),
         period |-> [startDate |-> start, endDate |-> end]]

\* GET /api/analytics/summary
Summary_DeletesCounted(user, start, end) ==
    /\ resp' = [req |-> [op |-> "summary", user |-> user, at |-> now],
                status |-> 200, success |-> TRUE,
                data |-> SummaryData(user, start, end)]
    /\ regression' = NewRegression
    /\ db' = db \ Match(db, user, Types, start, end)
    /\ UNCHANGED <<now, tz, users>>
Summary(user, start, end) ==
    /\ resp' = [req |-> [op |-> "summary", user |-> user, at |-> now],
                status |-> 200, success |-> TRUE,
                data |-> SummaryData(user, start, end)]
    /\ regression' = NewRegression
    /\ UNCHANGED <<db, now, tz, users>>

(* -------------------- analytics: spending-by-category ------------------ *)
\* $group { _id: '$category', total, count } and $project { category: '$_id' }
CategoryGroups_CountAsTotal(M) ==
    {[id |-> c, category |-> c,
      total |-> Cardinality({t \in M : t.category = c}),
      count |-> Cardinality({t \in M : t.category = c})] :
        c \in {t.category : t \in M}}
CategoryGroups(M) ==
    {[id |-> c, category |-> c,
      total |-> SumAmount({t \in M : t.category = c}),
      count |-> Cardinality({t \in M : t.category = c})] :
        c \in {t.category : t \in M}}

\* $sort: { total: -1 }: every order of the groups in which totals do not
\* increase (the order of groups with equal totals is not determined)
SortedByTotal(G) ==
    {s \in [1 .. Cardinality(G) -> G] :
        /\ \A i, j \in 1 .. Cardinality(G) : i # j => s[i] # s[j]
        /\ \A i \in 1 .. Cardinality(G) - 1 : s[i].total >= s[i + 1].total}

\* totalAmount > 0 ? ((item.total / totalAmount) * 100).toFixed(2) : 0, the
\* two-decimal string as its count of hundredths
PercentageOf_Fraction(total, totalAmount) ==
    IF totalAmount > 0
    THEN Round2(RMul(RDiv(Rat(total), Rat(totalAmount)), Rat(100)))
    ELSE 0
PercentageOf(total, totalAmount) ==
    IF totalAmount > 0
    THEN Round2(RMul(RDiv(Rat(total), Rat(totalAmount)), Rat(100 * 100)))
    ELSE 0

CategoryData(result, type) ==
    LET totalAmount == SumSeq([i \in 1 .. Len(result) |-> result[i].total])
    IN  [categories |->
            [i \in 1 .. Len(result) |->
                [id |-> result[i].id, category |-> result[i].category,
                 total |-> result[i].total, count |-> result[i].count,
                 percentage |-> PercentageOf(result[i].total, totalAmount)]],
         totalAmount |-> totalAmount,
         type |-> type]

\* GET /api/analytics/spending-by-category (type defaults to 'expense' and is
\* otherwise whatever string the query carries)
SpendingByCategory(user, type, start, end) ==
    /\ \E result \in SortedByTotal(CategoryGroups(Match(db, user, {type}, start, end))) :
          resp' = [req |-> [op |-> "spending-by-category", user |-> user, at |-> now,
                            type |-> type, startDate |-> start, endDate |-> end],
                   status |-> 200, success |-> TRUE,
                   data |-> CategoryData(result, type)]
    /\ regression' = NewRegression
    /\ UNCHANGED <<db, now, tz, users>>

(* ------------- analytics: savings-projection, monthly-trends ----------- *)
\* new Date(year, month - 1, 1).toISOString().split('T')[0]: midnight of the
\* first of the month in the server's local time, printed as its UTC date; east
\* of UTC that instant is still the last day of the month before
DateLabel(key) ==
    LET mi == 12 * key[1] + key[2] - 1
    IN  IF tz > 0
        THEN <<(mi - 1) \div 12, ((mi - 1) % 12) + 1, DaysInMonth(mi - 1)>>
        ELSE <<key[1], key[2], 1>>

\* the $match / $group / $sort pipeline shared by both routes
MonthlyData_NoCond(user, months, cap) ==
    LET M == Match(db, user, Types, {WindowStart(months, cap)}, {now})
        g == MonthGroups(M)
    IN  [i \in 1 .. Len(g) |->
            [id |-> g[i].key,
             income |-> SumAmount(OfType(g[i].docs, "income")),
             expenses |-> SumAmount(g[i].docs),
             transactionCount |-> Cardinality(g[i].docs)]]
MonthlyData(user, months, cap) ==
    LET M == Match(db, user, Types, {WindowStart(months, cap)}, {now})
        g == MonthGroups(M)
    IN  [i \in 1 .. Len(g) |->
            [id |-> g[i].key,
             income |-> SumAmount(OfType(g[i].docs, "income")),
             expenses |-> SumAmount(OfType(g[i].docs, "expense")),
             transactionCount |-> Cardinality(g[i].docs)]]

\* projection: null below two buckets, else the mean of savings.slice(-3)
ProjectionOf_MeanOfAll(processedData) ==
    IF Len(processedData) >= 2
    THEN {RDiv(Rat(SumSeq([i \in 1 .. Len(processedData) |-> processedData[i].savings])),
               Rat(Len(processedData)))}
    ELSE {}
ProjectionOf_ZeroDefault(processedData) ==
    IF Len(processedData) >= 2
    THEN LET recentSavings == LastElements(processedData, RecentWindow)
         IN  {RDiv(Rat(SumSeq([i \in 1 .. Len(recentSavings) |-> recentSavings[i].savings])),
                   Rat(Len(recentSavings)))}
    ELSE {RZero}
ProjectionOf(processedData) ==
    IF Len(processedData) >= 2
    THEN LET recentSavings == LastElements(processedData, RecentWindow)
         IN  {RDiv(Rat(SumSeq([i \in 1 .. Len(recentSavings) |-> recentSavings[i].savings])),
                   Rat(Len(recentSavings)))}
    ELSE {}

AnalysisPeriod(months, cap) ==
    [startDate |-> WindowStart(months, cap), endDate |-> now,
     months |-> Min(months, cap)]

\* GET /api/analytics/savings-projection
SavingsProjection(user, months) ==
    LET monthlyData == MonthlyData(user, months, SavingsMaxMonths)
        processedData ==
            [i \in 1 .. Len(monthlyData) |->
                [date |-> DateLabel(monthlyData[i].id),
                 income |-> monthlyData[i].income,
                 expenses |-> monthlyData[i].expenses,
                 savings |-> monthlyData[i].income - monthlyData[i].expenses]]
    IN  /\ resp' = [req |-> [op |-> "savings-projection", user |-> user, at |-> now,
                             months |-> months],
                    status |-> 200, success |-> TRUE,
                    data |-> [historical |-> processedData,
                              projection |-> ProjectionOf(processedData),
                              analysisPeriod |-> AnalysisPeriod(months, SavingsMaxMonths)]]
        /\ regression' = NewRegression
        /\ UNCHANGED <<db, now, tz, users>>

\* GET /api/analytics/monthly-trends
MonthlyTrends(user, months) ==
    LET result == MonthlyData(user, months, TrendsMaxMonths)
        trends ==
            [i \in 1 .. Len(result) |->
                [date |-> DateLabel(result[i].id),
                 income |-> result[i].income,
                 expenses |-> result[i].expenses,
                 savings |-> result[i].income - result[i].expenses,
                 transactionCount |-> result[i].transactionCount]]
    IN  /\ resp' = [req |-> [op |-> "monthly-trends", user |-> user, at |-> now,
                             months |-> months],
                    status |-> 200, success |-> TRUE,
                    data |-> [trends |-> trends,
                              analysisPeriod |-> AnalysisPeriod(months, TrendsMaxMonths)]]
        /\ regression' = NewRegression
        /\ UNCHANGED <<db, now, tz, users>>

(* --------------------------- spending-insights ------------------------- *)
\* Number.prototype.toFixed(1): the nearest tenth, a tie going away from zero,
\* as a count of tenths
ToFixed1(q) ==
    IF q[1] < 0 THEN 0 - MathRound(<<10 * (0 - q[1]), q[2]>>)
    ELSE MathRound(<<10 * q[1], q[2]>>)

\* $group { _id: '$category', total, count, avgAmount: { $avg: '$amount' } }
InsightCategoryGroups(M) ==
    {[id |-> c,
      total |-> SumAmount({t \in M : t.category = c}),
      count |-> Cardinality({t \in M : t.category = c}),
      avgAmount |-> RDiv(Rat(SumAmount({t \in M : t.category = c})),
                         Rat(Cardinality({t \in M : t.category = c})))] :
        c \in {t.category : t \in M}}

\* $group by month { total } and $sort ascending
MonthlyTotals(M) ==
    LET g == MonthGroups(M)
    IN  [i \in 1 .. Len(g) |-> [id |-> g[i].key, total |-> SumAmount(g[i].docs)]]

\* sum / monthlyTrends.length: NaN (the empty set here, null in JSON) when
\* there is no month, else the mean in cents
AverageMonthlySpending(monthlyTrends) ==
    IF Len(monthlyTrends) = 0 THEN {}
    ELSE {RDiv(Rat(SumSeq([i \in 1 .. Len(monthlyTrends) |-> monthlyTrends[i].total])),
               Rat(Len(monthlyTrends)))}

\* the insights array; percentages and changes in tenths of a percent,
\* recommendation values in whole currency units (Math.round)
InsightsOf(categoryData, monthlyTrends) ==
    LET totalSpending == SumSeq([i \in 1 .. Len(categoryData) |-> categoryData[i].total])
        top ==
            IF Len(categoryData) > 0
            THEN <<[type |-> "top_category", category |-> categoryData[1].id,
                    value |-> categoryData[1].total,
                    percentage |->
                        ToFixed1(RMul(RDiv(Rat(categoryData[1].total), Rat(totalSpending)),
                                      Rat(100)))]>>
            ELSE <<>>
        trend ==
            IF Len(monthlyTrends) >= 2
            THEN LET recent == LastElements(monthlyTrends, 2)
                     change ==
                         ToFixed1(RMul(RDiv(Rat(recent[2].total - recent[1].total),
                                            Rat(recent[1].total)), Rat(100)))
                 IN  IF Abs(change) > TrendChangePercent * 10
                     THEN <<[type |-> "trend", value |-> change,
                             direction |-> IF change > 0 THEN "up" ELSE "down"]>>
                     ELSE <<>>
            ELSE <<>>
        highFreqCategories ==
            SelectSeq(categoryData, LAMBDA cat : cat.count > HighFrequencyCount)
        frequency ==
            IF Len(highFreqCategories) > 0
            THEN <<[type |-> "frequency", category |-> highFreqCategories[1].id,
                    value |-> highFreqCategories[1].count]>>
            ELSE <<>>
        recommendation ==
            IF \E avg \in AverageMonthlySpending(monthlyTrends) : RLess(RZero, avg)
            THEN LET avg == CHOOSE a \in AverageMonthlySpending(monthlyTrends) : TRUE
                 IN  <<[type |-> "recommendation",
                        value |-> MathRound(RDiv(RMul(avg, <<9, 10>>), Rat(100))),
                        currentAverage |-> MathRound(RDiv(avg, Rat(100)))]>>
            ELSE <<>>
    IN  top \o trend \o frequency \o recommendation

\* GET /api/ml/spending-insights
SpendingInsights(user, months) ==
    LET M == Match(db, user, {"expense"}, {WindowStart(months, InsightsMaxMonths)}, {now})
        monthlyTrends == MonthlyTotals(M)
    IN  /\ \E categoryData \in SortedByTotal(InsightCategoryGroups(M)) :
              resp' = [req |-> [op |-> "spending-insights", user |-> user, at |-> now,
                                months |-> months],
                       status |-> 200, success |-> TRUE,
                       data |->
                           [insights |-> InsightsOf(categoryData, monthlyTrends),
                            summary |->
                                [totalCategories |-> Len(categoryData),
                                 totalSpending |->
                                     SumSeq([i \in 1 .. Len(categoryData) |->
                                                categoryData[i].total]),
                                 averageMonthlySpending |->
                                     AverageMonthlySpending(monthlyTrends),
                                 analysisPeriod |-> Min(months, InsightsMaxMonths)]]]
        /\ regression' = NewRegression
        /\ UNCHANGED <<db, now, tz, users>>

(* ----------------------------- transactions ---------------------------- *)
\* A persisted document is [id, user, description, amount, type, category,
\* date] with the amount in cents.  A request carries its amount as a JSON
\* number, modelled in thousandths (mills), so that an amount with three
\* fractional digits can be sent.
DescriptionMaxLen == 200
CategoryMaxLen == 50
\* 0.01 in mills, and the mills of one cent
MinAmountMills == 10
MillsPerCent == 10

TxIds == 1 .. MaxTx
FreeIds == TxIds \ {t.id : t \in db}

\* String.prototype.trim / mongoose trim: true (the space is the only
\* whitespace character of the modelled texts)
RECURSIVE TrimLeft(_)
TrimLeft(s) ==
    IF Len(s) > 0 /\ SubSeq(s, 1, 1) = " " THEN TrimLeft(SubSeq(s, 2, Len(s))) ELSE s
RECURSIVE TrimRight(_)
TrimRight(s) ==
    IF Len(s) > 0 /\ SubSeq(s, Len(s), Len(s)) = " "
    THEN TrimRight(SubSeq(s, 1, Len(s) - 1)) ELSE s
Trim(s) == TrimRight(TrimLeft(s))

\* the zod transactionSchema: lengths of the untrimmed strings, a positive
\* amount of at least 0.01, the type enum, a well-formed optional datetime
ZodAccepts(body) ==
    /\ Len(body.description) >= 1 /\ Len(body.description) <= DescriptionMaxLen
    /\ body.amount > 0 /\ body.amount >= MinAmountMills
    /\ body.type \in Types
    /\ Len(body.category) >= 1 /\ Len(body.category) <= CategoryMaxLen
    /\ body.dateWellFormed

\* the mongoose schema's date validator: value <= new Date()
DateNotInFuture_Always(date) == TRUE
DateNotInFuture(date) == date <= now

\* /^\d+(\.\d{1,2})?$/.test(value.toString())
TwoDecimals(amount) == amount >= 0 /\ amount % MillsPerCent = 0

\* the mongoose transactionSchema applied to a document being saved: required
\* and maxlength on the trimmed strings, min and the two-decimals validator
\* on the amount, the type enum, the date validator
MongooseAccepts(d) ==
    /\ Len(Trim(d.description)) >= 1 /\ Len(Trim(d.description)) <= DescriptionMaxLen
    /\ d.amount >= MinAmountMills /\ TwoDecimals(d.amount)
    /\ d.type \in Types
    /\ Len(Trim(d.category)) >= 1 /\ Len(Trim(d.category)) <= CategoryMaxLen
    /\ DateNotInFuture(d.date)

\* the document as persisted under an id: strings trimmed, amount in cents
Persisted(d, id) ==
    [id |-> id, user |-> d.user, description |-> Trim(d.description),
     amount |-> d.amount \div MillsPerCent, type |-> d.type,
     category |-> Trim(d.category), date |-> d.date]

\* POST /api/transactions: zod parse of the body (a ZodError is answered 400;
\* date optional, defaulting to new Date()), then save() under the mongoose
\* schema, whose ValidationError is not a ZodError and is answered 500
CreateTransaction(user, body) ==
    LET req == [op |-> "create-transaction", user |-> user, body |-> body]
        transaction ==
            [user |-> user, description |-> body.description, amount |-> body.amount,
             type |-> body.type, category |-> body.category,
             date |-> IF body.date = {} THEN now ELSE CHOOSE d \in body.date : TRUE]
    IN  /\ FreeIds # {}
        /\ IF ~ZodAccepts(body)
           THEN /\ db' = db
                /\ resp' = [req |-> req, status |-> 400, success |-> FALSE]
           ELSE IF ~MongooseAccepts(transaction)
           THEN /\ db' = db
                /\ resp' = [req |-> req, status |-> 500, success |-> FALSE]
           ELSE /\ db' = db \cup {Persisted(transaction, SetMin(FreeIds))}
                /\ resp' = [req |-> req, status |-> 201, success |-> TRUE,
                            data |-> [transaction |-> Persisted(transaction, SetMin(FreeIds))]]
        /\ regression' = NewRegression
        /\ UNCHANGED <<now, tz, users>>

\* an id that casts to an ObjectId (ids are positive here; anything else is a
\* string that mongoose cannot cast)
IsObjectId(id) == id >= 1

\* DELETE /api/transactions/:id: findOneAndDelete({ _id, user }); a CastError
\* of the id is answered 500
DeleteTransaction_AnyOwner(user, id) ==
    LET found == {t \in db : t.id = id}
        req == [op |-> "delete-transaction", user |-> user, id |-> id]
    IN  /\ db' = db \ found
        /\ resp' = IF ~IsObjectId(id)
                   THEN [req |-> req, status |-> 500, success |-> FALSE]
                   ELSE IF found = {}
                   THEN [req |-> req, status |-> 404, success |-> FALSE]
                   ELSE [req |-> req, status |-> 200, success |-> TRUE]
        /\ regression' = NewRegression
        /\ UNCHANGED <<now, tz, users>>
DeleteTransaction(user, id) ==
    LET found == {t \in db : t.id = id /\ t.user = user}
        req == [op |-> "delete-transaction", user |-> user, id |-> id]
    IN  /\ db' = db \ found
        /\ resp' = IF ~IsObjectId(id)
                   THEN [req |-> req, status |-> 500, success |-> FALSE]
                   ELSE IF found = {}
                   THEN [req |-> req, status |-> 404, success |-> FALSE]
                   ELSE [req |-> req, status |-> 200, success |-> TRUE]
        /\ regression' = NewRegression
        /\ UNCHANGED <<now, tz, users>>

(* ------------------------- listing transactions ------------------------ *)
\* limit = 20 unless the query gives one
ListDefaultLimit == 20

\* find(query).sort({ date: -1 | 1 }): every order of the documents in which
\* dates do not increase (desc) or decrease (asc); the order of documents
\* with equal dates is not determined
SortedByDate(D, sortOrder) ==
    {s \in [1 .. Cardinality(D) -> D] :
        /\ \A i, j \in 1 .. Cardinality(D) : i # j => s[i] # s[j]
        /\ \A i \in 1 .. Cardinality(D) - 1 :
              IF sortOrder = "desc" THEN s[i].date >= s[i + 1].date
              ELSE s[i].date <= s[i + 1].date}

\* .skip(skip).limit(limit)
Page(s, skip, limit) ==
    IF skip >= Len(s) THEN <<>> ELSE SubSeq(s, skip + 1, Min(Len(s), skip + limit))

\* Math.ceil(total / limit)
CeilDiv(a, b) == (a + b - 1) \div b

\* GET /api/transactions: the caller's documents, optionally within a date
\* range, of one type and of one category, sorted by date, one page of them
ListTransactions(user, start, end, types, categories, page, limit, sortOrder) ==
    LET D == {t \in db : /\ t.user = user
                         /\ InRange(t.date, start, end)
                         /\ \A ty \in types : t.type = ty
                         /\ \A c \in categories : t.category = c}
    IN  /\ \E s \in SortedByDate(D, sortOrder) :
              resp' = [req |-> [op |-> "list-transactions", user |-> user, at |-> now],
                       status |-> 200, success |-> TRUE,
                       data |-> [transactions |-> Page(s, (page - 1) * limit, limit),
                                 pagination |->
                                     [currentPage |-> page,
                                      totalPages |-> CeilDiv(Cardinality(D), limit),
                                      totalItems |-> Cardinality(D),
                                      itemsPerPage |-> limit]]]
        /\ regression' = NewRegression
        /\ UNCHANGED <<db, now, tz, users>>

\* GET /api/transactions/categories: distinct('category', { user })
GetCategories(user) ==
    /\ resp' = [req |-> [op |-> "categories", user |-> user, at |-> now],
                status |-> 200, success |-> TRUE,
                data |-> [categories |-> {t.category : t \in {d \in db : d.user = user}}]]
    /\ regression' = NewRegression
    /\ UNCHANGED <<db, now, tz, users>>

(* ------------------------------ CSV import ----------------------------- *)
\* A parsed row carries its cells as Papa.parse returns them (trimmed
\* strings): the date cell as what new Date(cell) gives (the empty set for an
\* Invalid Date), the amount cell as what parseFloat gives (the empty set for
\* NaN, else mills).

\* String.prototype.toLowerCase on the type cells that occur
ToLowerCase(s) ==
    CASE s = "INCOME" -> "income"
      [] s = "Income" -> "income"
      [] s = "EXPENSE" -> "expense"
      [] s = "Expense" -> "expense"
      [] OTHER -> s

\* the type and the category of a row under the column mapping
RowType(row, mapping) ==
    IF mapping.typeColumn /\ row.type # "" /\ ToLowerCase(row.type) \in Types
    THEN ToLowerCase(row.type)
    ELSE mapping.defaultType
RowCategory(row, mapping) ==
    IF mapping.categoryColumn /\ row.category # "" THEN row.category
    ELSE mapping.defaultCategory

\* if (!description || isNaN(amount) || amount <= 0) ... if (isNaN(date.getTime()))
RowRejected(row) ==
    \/ row.description = ""
    \/ row.amount = {}
    \/ \E a \in row.amount : a <= 0
    \/ row.date = {}

\* new Transaction({ user, description, amount, type, category, date })
RowTransaction(user, row, mapping) ==
    [user |-> user, description |-> row.description,
     amount |-> CHOOSE a \in row.amount : TRUE,
     type |-> RowType(row, mapping), category |-> RowCategory(row, mapping),
     date |-> CHOOSE d \in row.date : TRUE]

\* the transactions array built by the loop over the rows, in row order
RECURSIVE RowTransactions(_, _, _)
RowTransactions(user, rows, mapping) ==
    IF rows = <<>> THEN <<>>
    ELSE (IF RowRejected(Head(rows)) THEN <<>>
          ELSE <<RowTransaction(user, Head(rows), mapping)>>)
         \o RowTransactions(user, Tail(rows), mapping)

\* the k smallest free ids, in order
RECURSIVE FirstIds(_, _)
FirstIds(F, k) ==
    IF k = 0 THEN <<>> ELSE <<SetMin(F)>> \o FirstIds(F \ {SetMin(F)}, k - 1)

\* POST /api/transactions/upload-csv: 400 without a file, on an invalid
\* mapping, on parse errors and on a file without rows; rows with a missing
\* description, a non-positive or non-numeric amount or an invalid date are
\* skipped; insertMany validates every remaining document and inserts all or,
\* on a ValidationError (answered 500), none
UploadCsv(user, file) ==
    LET req == [op |-> "upload-csv", user |-> user, file |-> file]
        transactions == RowTransactions(user, file.rows, file.mapping)
        ids == FirstIds(FreeIds, Len(transactions))
    IN  /\ Len(transactions) <= Cardinality(FreeIds)
        /\ IF ~file.present \/ ~file.mappingValid \/ file.parseErrors \/ file.rows = <<>>
           THEN /\ db' = db
                /\ resp' = [req |-> req, status |-> 400, success |-> FALSE]
           ELSE IF \E i \in 1 .. Len(transactions) : ~MongooseAccepts(transactions[i])
           THEN /\ db' = db
                /\ resp' = [req |-> req, status |-> 500, success |-> FALSE]
           ELSE /\ db' = db \cup {Persisted(transactions[i], ids[i]) :
                                     i \in 1 .. Len(transactions)}
                /\ resp' = [req |-> req, status |-> 200, success |-> TRUE,
                            data |-> [imported |-> Len(transactions),
                                      totalErrors |-> Len(file.rows) - Len(transactions)]]
        /\ regression' = NewRegression
        /\ UNCHANGED <<now, tz, users>>

\* the instants at which the full system's clock stands
SysClockDates == {Date(2025, 1, 10), Date(2025, 1, 31)}

\* time passes: the clock moves to its next instant
Tick ==
    /\ \E c \in SysClockDates : c > now
    /\ now' = SetMin({c \in SysClockDates : c > now})
    /\ UNCHANGED <<db, tz, resp, regression, users, auth, dashboard, inflight, observed>>

(* ---------------------------- authentication --------------------------- *)
\* jwt.sign(..., { expiresIn: '7d' })
TokenLifetimeDays == 7

\* the date k days (k < 28) after a date
AddDays(date, k) ==
    LET mi == MonthIdx(date)
        d == DayOf(date) + k
    IN  IF d > DaysInMonth(mi) THEN (mi + 1) * 32 + (d - DaysInMonth(mi))
        ELSE mi * 32 + d

\* What the Authorization header carries: nothing, a string that does not
\* verify under JWT_SECRET, or a token the server signed for userId at iat.
NoToken == [present |-> FALSE, signed |-> FALSE, userId |-> "", iat |-> 0]
BadToken == [present |-> TRUE, signed |-> FALSE, userId |-> "", iat |-> 0]
SignedToken(userId, iat) ==
    [present |-> TRUE, signed |-> TRUE, userId |-> userId, iat |-> iat]

\* generateToken(user)
GenerateToken(user) == SignedToken(user, now)

\* jwt.verify raises TokenExpiredError once the clock has reached exp
TokenExpired_Never(token) == FALSE
TokenExpired(token) == now >= AddDays(token.iat, TokenLifetimeDays)

\* the auth middleware: the 401 it answers, or the user it attaches to the
\* request before calling next()
Auth(token) ==
    IF ~token.present
    THEN [next |-> FALSE, status |-> 401, message |-> "Access denied. No token provided."]
    ELSE IF ~token.signed
    THEN [next |-> FALSE, status |-> 401, message |-> "Invalid token."]
    ELSE IF TokenExpired(token)
    THEN [next |-> FALSE, status |-> 401, message |-> "Token expired."]
    ELSE IF token.userId \notin users
    THEN [next |-> FALSE, status |-> 401, message |-> "Invalid token. User not found."]
    ELSE [next |-> TRUE, user |-> token.userId]

\* no request has passed the middleware yet
NoAuth == [ran |-> FALSE, token |-> NoToken, nextCalls |-> 0, at |-> 0]

\* router.<method>(path, auth, handler): the middleware answers 401 itself, or
\* calls next() once and the handler serves the request with req.user
Serve(token, Handler(_)) ==
    LET a == Auth(token)
    IN  IF a.next
        THEN /\ auth' = [ran |-> TRUE, token |-> token, nextCalls |-> 1, at |-> now]
             /\ Handler(a.user)
        ELSE /\ auth' = [ran |-> TRUE, token |-> token, nextCalls |-> 0, at |-> now]
             /\ resp' = [req |-> [op |-> "auth", at |-> now],
                         status |-> a.status, success |-> FALSE,
                         message |-> a.message]
             /\ regression' = NewRegression
             /\ UNCHANGED <<db, now, tz, users>>

\* a request of a client other than the Dashboard component, served while no
\* other request is under way
Route(token, Handler(_)) == Serve(token, Handler) /\ UNCHANGED <<dashboard, inflight, observed>>

\* POST /api/auth/register: 400 on a ZodError or when the email is taken, else
\* the user is saved and a token is returned
Register(user, bodyValid) ==
    /\ IF ~bodyValid
       THEN /\ resp' = [req |-> [op |-> "register", at |-> now],
                        status |-> 400, success |-> FALSE]
            /\ users' = users
       ELSE IF user \in users
       THEN /\ resp' = [req |-> [op |-> "register", at |-> now],
                        status |-> 400, success |-> FALSE]
            /\ users' = users
       ELSE /\ users' = users \cup {user}
            /\ resp' = [req |-> [op |-> "register", at |-> now],
                        status |-> 201, success |-> TRUE,
                        data |-> [user |-> user, token |-> SignedToken(user, now)]]
    /\ auth' = NoAuth
    /\ UNCHANGED <<dashboard, inflight, observed>>
    /\ regression' = NewRegression
    /\ UNCHANGED <<db, now, tz>>

\* POST /api/auth/login: 401 for an unknown email or a wrong password, else a
\* fresh token
Login(user, passwordValid) ==
    /\ resp' = IF user \in users /\ passwordValid
               THEN [req |-> [op |-> "login", at |-> now],
                     status |-> 200, success |-> TRUE,
                     data |-> [user |-> user, token |-> GenerateToken(user)]]
               ELSE [req |-> [op |-> "login", at |-> now],
                     status |-> 401, success |-> FALSE]
    /\ auth' = NoAuth
    /\ UNCHANGED <<dashboard, inflight, observed>>
    /\ regression' = NewRegression
    /\ UNCHANGED <<db, now, tz, users>>

(* ---------------------------- specifications --------------------------- *)
\* the full system: inputs of the requests
SysCategories == {"Food"}
SysAmounts == {1, 2}
\* a request body with a well-formed date
Body(description, amount, type, category, date) ==
    [description |-> description, amount |-> amount, type |-> type,
     category |-> category, date |-> date, dateWellFormed |-> TRUE]
\* a CSV row and an uploaded file with its column mapping
Row(date, description, amount, type, category) ==
    [date |-> date, description |-> description, amount |-> amount,
     type |-> type, category |-> category]
File(rows, typeColumn, categoryColumn, defaultType, defaultCategory) ==
    [present |-> TRUE, mappingValid |-> TRUE, parseErrors |-> FALSE, rows |-> rows,
     mapping |-> [typeColumn |-> typeColumn, categoryColumn |-> categoryColumn,
                  defaultType |-> defaultType, defaultCategory |-> defaultCategory]]
\* the file uploaded in the full system: one row that is imported and one
\* that is skipped for its empty description
SysCsvFiles ==
    {File(<<Row({Date(2024, 12, 20)}, "d", {MinAmountMills}, "", "Food"),
            Row({Date(2024, 12, 20)}, "", {MinAmountMills}, "", "Food")>>,
          FALSE, TRUE, "expense", "Uncategorized")}
SysTxDates == {Date(2024, 12, 20), Date(2025, 1, 20)}
SysMonths == {1}

\* the instants at which the tokens in circulation were issued
SysTokenIats == SysClockDates
\* what a request may carry: nothing, or a token the server issued at or
\* before the current instant to a registered user
Tokens ==
    {NoToken} \cup
    {SignedToken(u, i) : u \in users, i \in {j \in SysTokenIats : j <= now}}

Init ==
    /\ db = {}
    /\ now = SetMin(SysClockDates)
    /\ tz \in TZOffsets
    /\ resp = NoResponse
    /\ regression = NewRegression
    /\ users = {"u1"}
    /\ auth = NoAuth
    /\ dashboard = NoDashboard
    /\ inflight = NoSummaryRequest
    /\ observed = {}

Next ==
    \/ \E u \in Users, v \in BOOLEAN : Register(u, v)
    \/ \E u \in Users, v \in BOOLEAN : Login(u, v)
    \/ \E tk \in Tokens, ty \in Types, c \in SysCategories, a \in SysAmounts,
          d \in OptDates(SysTxDates) :
          Route(tk, LAMBDA u : CreateTransaction(u, Body("d", a * MillsPerCent, ty, c, d)))
    \/ \E tk \in Tokens, f \in SysCsvFiles : Route(tk, LAMBDA u : UploadCsv(u, f))
    \/ \E tk \in Tokens :
          Route(tk, LAMBDA u : ListTransactions(u, {}, {}, {}, {}, 1, ListDefaultLimit, "desc"))
    \/ \E tk \in Tokens : Route(tk, LAMBDA u : GetCategories(u))
    \/ \E tk \in Tokens, id \in TxIds :
          Route(tk, LAMBDA u : DeleteTransaction(u, id))
    \/ Tick
    \/ \E tk \in Tokens : Route(tk, LAMBDA u : Summary(u, {}, {}))
    \/ \E tk \in Tokens, ty \in Types :
          Route(tk, LAMBDA u : SpendingByCategory(u, ty, {}, {}))
    \/ \E tk \in Tokens, m \in SysMonths :
          Route(tk, LAMBDA u : SavingsProjection(u, m))
    \/ \E tk \in Tokens, m \in SysMonths :
          Route(tk, LAMBDA u : MonthlyTrends(u, m))
    \/ \E tk \in Tokens, m \in SysMonths :
          Route(tk, LAMBDA u : PredictExpenses(u, m))
    \/ \E tk \in Tokens, m \in SysMonths :
          Route(tk, LAMBDA u : SpendingInsights(u, m))

Spec == Init /\ [][Next]_vars

(* ------------------ forecasting over drawn transaction sets ------------ *)
LastMonthIdx == FirstMonthIdx + NumMonths - 1
\* the clock instants of the last month of the universe
LateClockDates == {c \in ClockDates : MonthIdx(c) = LastMonthIdx}

\* documents that predict-expenses for u1 must ignore or add up: an income of
\* u1, an expense of u2 and a second, earlier expense of u1 in the first month
ExtraDocs ==
    {[id |-> NumMonths + 1, user |-> "u1", type |-> "income", category |-> "Rent", description |-> "d",
      amount |-> MaxAmount, date |-> FirstMonthIdx * 32 + 20],
     [id |-> NumMonths + 2, user |-> "u2", type |-> "expense", category |-> "Food", description |-> "d",
      amount |-> 1, date |-> (FirstMonthIdx + 1) * 32 + 3],
     [id |-> NumMonths + 3, user |-> "u1", type |-> "expense", category |-> "Rent", description |-> "d",
      amount |-> 1, date |-> FirstMonthIdx * 32 + 3]}

\* the latest transaction day of month mi that is not after the clock
TxDayIn(mi, clock) == SetMax({d \in TxDays : d = SetMin(TxDays) \/ mi * 32 + d <= clock})

\* per month either no expense of u1 (f[mi] = 0) or one of amount f[mi]
ExpenseDocs(f, clock) ==
    {[id |-> mi - FirstMonthIdx + 1, user |-> "u1", type |-> "expense",
      category |-> "Food", description |-> "d", amount |-> f[mi], date |-> mi * 32 + TxDayIn(mi, clock)] :
        mi \in {j \in MonthIdxs : f[j] > 0}}

InitForecast ==
    /\ now \in LateClockDates
    /\ tz = 0
    /\ \E f \in [MonthIdxs -> 0 .. MaxAmount], extra \in {{}, ExtraDocs} :
          db = {t \in ExpenseDocs(f, now) \cup extra : t.date <= now}
    /\ resp = NoResponse
    /\ regression = NewRegression
    /\ users = Users
    /\ auth = NoAuth
    /\ dashboard = NoDashboard
    /\ inflight = NoSummaryRequest
    /\ observed = {}

\* one request is served on each drawn transaction set
NextForecast ==
    \/ /\ resp = NoResponse
       /\ \E u \in Users, m \in MonthsParams :
             Route(GenerateToken(u), LAMBDA v : PredictExpenses(v, m))
    \/ /\ resp = NoResponse
       /\ \E u \in Users, m \in MonthsParams :
             Route(GenerateToken(u), LAMBDA v : SavingsProjection(v, m))

SpecForecast == InitForecast /\ [][NextForecast]_vars

(* ------------------- analytics over drawn transaction sets ------------- *)
\* the date bounds that summary and spending-by-category are asked with
RangeStart == (FirstMonthIdx + 2) * 32 + 20
RangeEnd == (FirstMonthIdx + 3) * 32 + 3
QueryTypes == Types \cup {"transfer"}

\* three documents of u1 whose amounts vary (0: absent) ...
VaryingDocs(f) ==
    {t \in {[id |-> 1, user |-> "u1", type |-> "expense", category |-> "Food", description |-> "d",
             amount |-> f[1], date |-> (FirstMonthIdx + 2) * 32 + 20],
            [id |-> 2, user |-> "u1", type |-> "expense", category |-> "Rent", description |-> "d",
             amount |-> f[2], date |-> (FirstMonthIdx + 3) * 32 + 3],
            [id |-> 3, user |-> "u1", type |-> "income", category |-> "Rent", description |-> "d",
             amount |-> f[3], date |-> (FirstMonthIdx + 2) * 32 + 3]} :
        t.amount > 0}

\* ... and three that are present or not: another user's expense, an expense
\* of u1 two months earlier and one in a third category
OptionalDocs ==
    {[id |-> 4, user |-> "u2", type |-> "expense", category |-> "Food", description |-> "d",
      amount |-> 2, date |-> (FirstMonthIdx + 2) * 32 + 20],
     [id |-> 5, user |-> "u1", type |-> "expense", category |-> "Food", description |-> "d",
      amount |-> 1, date |-> FirstMonthIdx * 32 + 20],
     [id |-> 6, user |-> "u1", type |-> "expense", category |-> "Fun", description |-> "d",
      amount |-> 1, date |-> (FirstMonthIdx + 3) * 32 + 3]}

InitAnalytics ==
    /\ now \in LateClockDates
    /\ tz \in TZOffsets
    /\ \E f \in [1 .. 3 -> 0 .. MaxAmount], extra \in SUBSET OptionalDocs :
          db = VaryingDocs(f) \cup extra
    /\ resp = NoResponse
    /\ regression = NewRegression
    /\ users = Users
    /\ auth = NoAuth
    /\ dashboard = NoDashboard
    /\ inflight = NoSummaryRequest
    /\ observed = {}

\* one request is served on each drawn transaction set
NextAnalytics ==
    \/ /\ resp = NoResponse
       /\ \E u \in Users, s \in OptDates({RangeStart}), e \in OptDates({RangeEnd}) :
             Route(GenerateToken(u), LAMBDA v : Summary(v, s, e))
    \/ /\ resp = NoResponse
       /\ \E u \in Users, ty \in QueryTypes,
             s \in OptDates({RangeStart}), e \in OptDates({RangeEnd}) :
             Route(GenerateToken(u),
                   LAMBDA v : SpendingByCategory(v, ty, s, e))
    \/ /\ resp = NoResponse
       /\ \E u \in Users, m \in MonthsParams :
             Route(GenerateToken(u),
                   LAMBDA v : SavingsProjection(v, m))
    \/ /\ resp = NoResponse
       /\ \E u \in Users, m \in MonthsParams :
             Route(GenerateToken(u), LAMBDA v : MonthlyTrends(v, m))

SpecAnalytics == InitAnalytics /\ [][NextAnalytics]_vars

(* ------------------- insights over drawn transaction sets -------------- *)
\* expense totals, in cents, of the last two months: equal ones, ones that
\* differ by exactly a tenth, by a little more than a tenth, and by much more
TrendAmounts == {200, 224, 249, 250, 274, 275, 276, 300}

\* an expense of u1 in each of the last two months (0: absent) ...
TrendDocs(previous, last) ==
    {t \in {[id |-> 1, user |-> "u1", type |-> "expense", category |-> "Food",
             description |-> "d", amount |-> previous,
             date |-> (LastMonthIdx - 1) * 32 + 3],
            [id |-> 2, user |-> "u1", type |-> "expense", category |-> "Rent",
             description |-> "d", amount |-> last, date |-> LastMonthIdx * 32 + 3]} :
        t.amount > 0}

\* ... and three documents that are present or not: an income of u1, an
\* expense of u2 and an expense of u1 in the first month
InsightExtraDocs ==
    {[id |-> 3, user |-> "u1", type |-> "income", category |-> "Pay", description |-> "d",
      amount |-> 300, date |-> LastMonthIdx * 32 + 3],
     [id |-> 4, user |-> "u2", type |-> "expense", category |-> "Food", description |-> "d",
      amount |-> 200, date |-> LastMonthIdx * 32 + 3],
     [id |-> 5, user |-> "u1", type |-> "expense", category |-> "Food", description |-> "d",
      amount |-> 200, date |-> FirstMonthIdx * 32 + 3]}

InitInsights ==
    /\ now \in LateClockDates
    /\ tz = 0
    /\ \E previous, last \in TrendAmounts \cup {0}, extra \in SUBSET InsightExtraDocs :
          db = TrendDocs(previous, last) \cup extra
    /\ resp = NoResponse
    /\ regression = NewRegression
    /\ users = Users
    /\ auth = NoAuth
    /\ dashboard = NoDashboard
    /\ inflight = NoSummaryRequest
    /\ observed = {}

\* one request is served on each drawn transaction set
NextInsights ==
    /\ resp = NoResponse
    /\ \E u \in Users, m \in MonthsParams :
          Route(GenerateToken(u), LAMBDA v : SpendingInsights(v, m))

SpecInsights == InitInsights /\ [][NextInsights]_vars

(* ------------------------------ seed script ---------------------------- *)
\* one element of sampleTransactions: new Date('y-m-d'), description, the
\* amount (written here in cents, carried in thousandths like a request
\* amount), type and category
Sample(y, m, d, description, cents, type, category) ==
    [date |-> Date(y, m, d), description |-> description,
     amount |-> cents * MillsPerCent, type |-> type, category |-> category]

SampleTransactions ==
    <<
    Sample(2025, 3, 15, "Grocery Shopping", 12550, "expense", "Food & Dining"),
    Sample(2025, 3, 16, "Gas Station", 4500, "expense", "Transportation"),
    Sample(2025, 3, 17, "Salary Payment", 250000, "income", "Salary"),
    Sample(2025, 4, 18, "Netflix Subscription", 1599, "expense", "Entertainment"),
    Sample(2025, 4, 19, "Restaurant Dinner", 8500, "expense", "Food & Dining"),
    Sample(2025, 4, 20, "Amazon Purchase", 6750, "expense", "Shopping"),
    Sample(2025, 5, 21, "Freelance Project", 50000, "income", "Freelance"),
    Sample(2025, 5, 22, "Utility Bill", 12000, "expense", "Utilities"),
    Sample(2025, 5, 23, "Gym Membership", 5000, "expense", "Health & Fitness"),
    Sample(2025, 6, 24, "Coffee Shop", 450, "expense", "Food & Dining"),
    Sample(2025, 6, 25, "Phone Bill", 8000, "expense", "Utilities"),
    Sample(2025, 6, 26, "Book Purchase", 2500, "expense", "Education"),
    Sample(2025, 7, 27, "Investment Dividend", 15000, "income", "Investment"),
    Sample(2025, 7, 28, "Car Insurance", 20000, "expense", "Insurance"),
    Sample(2025, 8, 29, "Home Depot", 4575, "expense", "Home & Garden"),
    Sample(2025, 8, 30, "Online Course", 19900, "expense", "Education"),
    Sample(2025, 8, 15, "Monthly Salary", 250000, "income", "Salary"),
    Sample(2025, 8, 20, "Grocery Shopping", 14000, "expense", "Food & Dining"),
    Sample(2025, 8, 25, "Gas Station", 4800, "expense", "Transportation")
    >>

\* sampleUser (john.doe@example.com), under the id its save() gives it
SampleUser == "john"

\* seedData(): both collections are emptied, the sample user is saved, and
\* the sample transactions, each with the user's id, go to one insertMany,
\* which validates every document and inserts all of them or, when one is
\* refused (the error is caught and logged), none
SeedData ==
    LET transactions ==
            [i \in 1 .. Len(SampleTransactions) |->
                [user |-> SampleUser,
                 description |-> SampleTransactions[i].description,
                 amount |-> SampleTransactions[i].amount,
                 type |-> SampleTransactions[i].type,
                 category |-> SampleTransactions[i].category,
                 date |-> SampleTransactions[i].date]]
    IN  /\ users' = {SampleUser}
        /\ db' = IF \A i \in 1 .. Len(transactions) : MongooseAccepts(transactions[i])
                 THEN {Persisted(transactions[i], i) : i \in 1 .. Len(transactions)}
                 ELSE {}
        /\ resp' = NoResponse
        /\ auth' = NoAuth
        /\ UNCHANGED <<dashboard, inflight, observed>>
    /\ UNCHANGED <<dashboard, inflight, observed>>
        /\ regression' = NewRegression
        /\ UNCHANGED <<now, tz>>

\* the clock when the script runs: before the last sample date and after it
SeedClockDates == {Date(2025, 8, 10), Date(2025, 9, 10)}

\* the collections before the script runs hold anything
InitSeed ==
    /\ now \in SeedClockDates
    /\ tz = 0
    /\ db \in SUBSET OptionalDocs
    /\ resp = NoResponse
    /\ regression = NewRegression
    /\ users \in {{}, Users}
    /\ auth = NoAuth
    /\ dashboard = NoDashboard
    /\ inflight = NoSummaryRequest
    /\ observed = {}

\* the script runs, and the registered users ask for their summary with and
\* without date bounds
NextSeed ==
    \/ SeedData
    \/ \E u \in users, s \in OptDates({Date(2025, 4, 1)}), e \in OptDates({Date(2025, 7, 31)}) :
          Route(GenerateToken(u), LAMBDA v : Summary(v, s, e))

SpecSeed == InitSeed /\ [][NextSeed]_vars

(* ------------------------ the Dashboard component ---------------------- *)
\* getSavingsProjection(6) and getExpensePrediction(6)
DashboardMonths == 6

\* the route each api method of the Promise.all calls
DashboardHandler(r, v) ==
    CASE r = "summary" -> Summary(v, {}, {})
      [] r = "spending-by-category" -> SpendingByCategory(v, "expense", {}, {})
      [] r = "savings-projection" -> SavingsProjection(v, DashboardMonths)
      [] r = "predict-expenses" -> PredictExpenses(v, DashboardMonths)
      [] r = "categories" -> GetCategories(v)

\* axios rejects the promise of a response whose status is not 2xx
Rejects(response) == response.status \notin 200 .. 299

\* the catch block: the message set for err.response.status
LoadError(status) ==
    CASE status = 401 -> "Authentication required. Please log in again."
      [] status = 500 -> "Server error. Please check if the backend is running."
      [] status = 400 -> "Bad request. Please check your data and try again."
      [] OTHER -> "Failed to load dashboard data. Please try again."

\* if (res.success && res.data) set...(res.data)
StoredFrom(res, before) ==
    IF \E x \in res : x.success THEN {x.data : x \in res} ELSE before

\* the effect on the component of the response to request r: Promise.all
\* rejects with the first rejection and is fulfilled once all five promises
\* are; a response that arrives after the rejection is dropped
Settle(d, r, response) ==
    LET got == [d EXCEPT !.pending = @ \ {r}, !.results[r] = {response}]
    IN  IF d.settled
        THEN got
        ELSE IF Rejects(response)
        THEN [got EXCEPT !.error = {LoadError(response.status)},
                         !.loading = FALSE, !.settled = TRUE]
        ELSE IF got.pending = {}
        THEN [got EXCEPT
                 !.summary = StoredFrom(got.results["summary"], @),
                 !.spendingData = StoredFrom(got.results["spending-by-category"], @),
                 !.savingsData = StoredFrom(got.results["savings-projection"], @),
                 !.prediction = StoredFrom(got.results["predict-expenses"], @),
                 !.categories =
                     IF \E x \in got.results["categories"] : x.success
                     THEN UNION {x.data.categories : x \in got.results["categories"]}
                     ELSE @,
                 !.loading = FALSE, !.settled = TRUE]
        ELSE got

\* useEffect: the logged-in user opens the dashboard and the five requests
\* are sent
FetchDashboardData(user) ==
    /\ dashboard = NoDashboard
    /\ inflight = NoSummaryRequest
    /\ observed = {}
    /\ dashboard' = [NoDashboard EXCEPT !.user = user, !.pending = DashboardRequests]
    /\ UNCHANGED <<db, now, tz, resp, regression, users, auth, inflight, observed>>

\* the server answers one of the requests under way and the client receives
\* the response
DashboardResponse(r) ==
    /\ r \in dashboard.pending
    /\ Serve(GenerateToken(dashboard.user), LAMBDA v : DashboardHandler(r, v))
    /\ dashboard' = Settle(dashboard, r, resp')
    /\ UNCHANGED <<inflight, observed>>

InitDashboard ==
    /\ now = SetMax(LateClockDates)
    /\ tz = 0
    /\ \E f \in [MonthIdxs -> 0 .. MaxAmount], extra \in {{}, ExtraDocs} :
          db = {t \in ExpenseDocs(f, now) \cup extra : t.date <= now}
    /\ resp = NoResponse
    /\ regression = NewRegression
    /\ users = Users
    /\ auth = NoAuth
    /\ dashboard = NoDashboard
    /\ inflight = NoSummaryRequest
    /\ observed = {}

NextDashboard ==
    \/ \E u \in Users : FetchDashboardData(u)
    \/ \E r \in DashboardRequests : DashboardResponse(r)

SpecDashboard == InitDashboard /\ [][NextDashboard]_vars

(* ------------------- creating, importing and deleting ------------------ *)
\* a text of n copies of a character
RECURSIVE Rep(_, _)
Rep(c, n) ==
    IF n = 0 THEN ""
    ELSE LET h == Rep(c, n \div 2)
         IN  IF n % 2 = 0 THEN h \o h ELSE h \o h \o c

\* request bodies: two that are accepted as they are, one whose texts are
\* trimmed, one at the length limits, and one body per way of being refused
GoodBody == Body("Lunch", 1250, "expense", "Food", {})
TxBodies ==
    {GoodBody,
     Body("Salary", 2000, "income", "Pay", {Date(2024, 12, 20)}),
     Body(" Lunch ", 1250, "expense", " Food ", {}),
     Body(Rep("d", DescriptionMaxLen), MinAmountMills, "expense",
          Rep("c", CategoryMaxLen), {}),
     [GoodBody EXCEPT !.description = ""],
     [GoodBody EXCEPT !.description = " "],
     [GoodBody EXCEPT !.description = Rep("d", DescriptionMaxLen + 1)],
     [GoodBody EXCEPT !.amount = 0],
     [GoodBody EXCEPT !.amount = 0 - 1250],
     [GoodBody EXCEPT !.amount = 5],
     [GoodBody EXCEPT !.amount = 1234],
     [GoodBody EXCEPT !.type = "transfer"],
     [GoodBody EXCEPT !.category = ""],
     [GoodBody EXCEPT !.category = " "],
     [GoodBody EXCEPT !.category = Rep("c", CategoryMaxLen + 1)],
     [GoodBody EXCEPT !.date = {Date(2025, 1, 20)}],
     [GoodBody EXCEPT !.dateWellFormed = FALSE]}

\* uploaded files: rows that are imported with the defaults or with their own
\* type and category, rows that are skipped, and rows that make insertMany fail
GoodRow == Row({Date(2024, 12, 20)}, "Lunch", {1250}, "", "")
NoColumns(rows) == File(rows, FALSE, FALSE, "expense", "Uncategorized")
TxFiles ==
    {NoColumns(<<GoodRow>>),
     File(<<Row({Date(2024, 12, 20)}, "Salary", {2000}, "INCOME", "Pay"),
            [GoodRow EXCEPT !.type = "transfer"]>>,
          TRUE, TRUE, "expense", "Uncategorized"),
     NoColumns(<<GoodRow, [GoodRow EXCEPT !.date = {}]>>),
     NoColumns(<<[GoodRow EXCEPT !.amount = {}], [GoodRow EXCEPT !.amount = {0 - 1250}],
                 [GoodRow EXCEPT !.description = ""]>>),
     NoColumns(<<GoodRow, [GoodRow EXCEPT !.amount = {1234}]>>),
     NoColumns(<<[GoodRow EXCEPT !.amount = {5}]>>),
     NoColumns(<<[GoodRow EXCEPT !.date = {Date(2025, 1, 20)}]>>),
     NoColumns(<<[GoodRow EXCEPT !.description = Rep("d", DescriptionMaxLen + 1)]>>),
     File(<<GoodRow>>, FALSE, FALSE, "expense", ""),
     File(<<GoodRow>>, FALSE, TRUE, "expense", Rep("c", CategoryMaxLen + 1)),
     NoColumns(<<>>),
     [NoColumns(<<GoodRow>>) EXCEPT !.present = FALSE],
     [NoColumns(<<GoodRow>>) EXCEPT !.mappingValid = FALSE],
     [NoColumns(<<GoodRow>>) EXCEPT !.parseErrors = TRUE]}

\* the queries of the listing: the default one, and ones that filter, page
\* and sort
DefaultQuery ==
    [start |-> {}, end |-> {}, types |-> {}, categories |-> {},
     page |-> 1, limit |-> ListDefaultLimit, sortOrder |-> "desc"]
ListQueries ==
    {DefaultQuery,
     [DefaultQuery EXCEPT !.sortOrder = "asc"],
     [DefaultQuery EXCEPT !.limit = 1],
     [DefaultQuery EXCEPT !.limit = 1, !.page = 2],
     [DefaultQuery EXCEPT !.types = {"expense"}, !.categories = {"Food"}],
     [DefaultQuery EXCEPT !.start = {Date(2025, 1, 1)}, !.end = {Date(2025, 1, 10)}]}

InitTransactions ==
    /\ db = {}
    /\ now = SetMin(SysClockDates)
    /\ tz = 0
    /\ resp = NoResponse
    /\ regression = NewRegression
    /\ users = Users
    /\ auth = NoAuth
    /\ dashboard = NoDashboard
    /\ inflight = NoSummaryRequest
    /\ observed = {}

NextTransactions ==
    \/ \E u \in Users, b \in TxBodies :
          Route(GenerateToken(u), LAMBDA v : CreateTransaction(v, b))
    \/ \E u \in Users, f \in TxFiles :
          Route(GenerateToken(u), LAMBDA v : UploadCsv(v, f))
    \/ \E u \in Users, i \in 0 .. MaxTx :
          Route(GenerateToken(u), LAMBDA v : DeleteTransaction(v, i))
    \/ \E u \in Users, q \in ListQueries :
          Route(GenerateToken(u),
                LAMBDA v : ListTransactions(v, q.start, q.end, q.types, q.categories,
                                            q.page, q.limit, q.sortOrder))
    \/ \E u \in Users : Route(GenerateToken(u), LAMBDA v : GetCategories(v))
    \/ Tick

SpecTransactions == InitTransactions /\ [][NextTransactions]_vars

(* ------------- get-financial-summary among concurrent writes ----------- *)
\* The summary handler awaits three queries in turn (the income aggregate, the
\* expense aggregate, countDocuments); while it waits the server handles other
\* requests.  Each query reads the collection as it is when it runs.

\* the figures of the summary over a collection S
SummaryOf(S, user, start, end) ==
    LET totalIncome == GroupTotalOrZero(Match(S, user, {"income"}, start, end))
        totalExpenses == GroupTotalOrZero(Match(S, user, {"expense"}, start, end))
    IN  [totalIncome |-> totalIncome,
         totalExpenses |-> totalExpenses,
         netSavings |-> totalIncome - totalExpenses,
         transactionCount |-> Cardinality(Match(S, user, Types, start, end))]

\* the request of user has passed the auth middleware and the date filter is
\* built; history keeps the states of the collection from here on
SummaryStart(user, start, end) ==
    /\ inflight = NoSummaryRequest
    /\ observed = {}
    /\ inflight' = [pc |-> "income", user |-> user, start |-> start, end |-> end,
                    history |-> <<db>>]
    /\ UNCHANGED <<db, now, tz, resp, regression, users, auth, dashboard, observed>>

\* const incomeResult = await Transaction.aggregate([...type: 'income'...])
SummaryIncome ==
    /\ inflight.pc = "income"
    /\ inflight' =
          [pc |-> "expense", user |-> inflight.user, start |-> inflight.start,
           end |-> inflight.end, history |-> inflight.history,
           incomeResult |-> Match(db, inflight.user, {"income"}, inflight.start, inflight.end)]
    /\ UNCHANGED <<db, now, tz, resp, regression, users, auth, dashboard, observed>>

\* const expenseResult = await Transaction.aggregate([...type: 'expense'...])
SummaryExpenses_IncomeAgain ==
    /\ inflight.pc = "expense"
    /\ inflight' =
          [pc |-> "count", user |-> inflight.user, start |-> inflight.start,
           end |-> inflight.end, history |-> inflight.history,
           incomeResult |-> inflight.incomeResult,
           expenseResult |-> Match(db, inflight.user, {"income"}, inflight.start, inflight.end)]
    /\ UNCHANGED <<db, now, tz, resp, regression, users, auth, dashboard, observed>>
SummaryExpenses ==
    /\ inflight.pc = "expense"
    /\ inflight' =
          [pc |-> "count", user |-> inflight.user, start |-> inflight.start,
           end |-> inflight.end, history |-> inflight.history,
           incomeResult |-> inflight.incomeResult,
           expenseResult |-> Match(db, inflight.user, {"expense"}, inflight.start, inflight.end)]
    /\ UNCHANGED <<db, now, tz, resp, regression, users, auth, dashboard, observed>>

\* const transactionCount = await Transaction.countDocuments(...) and the
\* response built from the three results
SummaryCount ==
    LET totalIncome == GroupTotalOrZero(inflight.incomeResult)
        totalExpenses == GroupTotalOrZero(inflight.expenseResult)
        transactionCount ==
            Cardinality(Match(db, inflight.user, Types, inflight.start, inflight.end))
    IN  /\ inflight.pc = "count"
        /\ resp' = [req |-> [op |-> "summary", user |-> inflight.user, at |-> now],
                    status |-> 200, success |-> TRUE,
                    data |-> [totalIncome |-> totalIncome,
                              totalExpenses |-> totalExpenses,
                              netSavings |-> totalIncome - totalExpenses,
                              transactionCount |-> transactionCount,
                              period |-> [startDate |-> inflight.start,
                                          endDate |-> inflight.end]]]
        /\ regression' = NewRegression
        /\ inflight' = [pc |-> "idle", user |-> inflight.user, start |-> inflight.start,
                        end |-> inflight.end, history |-> inflight.history]
        /\ UNCHANGED <<db, now, tz, users, auth, dashboard, observed>>

\* another request is served while the summary request may be waiting for a
\* query: the state it leaves joins the history of the request under way
Meanwhile(token, Handler(_)) ==
    /\ inflight.pc = "idle" => inflight = NoSummaryRequest
    /\ inflight.pc # "idle" => Len(inflight.history) <= MaxInterleaved
    /\ Serve(token, Handler)
    /\ inflight' =
          IF inflight.pc \in {"income", "expense", "count"}
             /\ db' # inflight.history[Len(inflight.history)]
          THEN [inflight EXCEPT !.history = Append(@, db')]
          ELSE inflight
    /\ UNCHANGED <<dashboard, observed>>

\* the writes that run beside the summary: an expense and an income created,
\* a file of two rows imported, a document deleted
ConcurrentBodies ==
    {GoodBody, Body("Salary", 2000, "income", "Pay", {Date(2024, 12, 20)})}
ConcurrentFiles ==
    {NoColumns(<<GoodRow, Row({Date(2024, 12, 20)}, "Salary", {2000}, "income", "Pay")>>)}
\* the lower date bounds of the summary: none, and one that leaves the
\* transactions of 2024 out
ConcurrentStarts == {{}, {Date(2025, 1, 1)}}

InitConcurrent ==
    /\ db = {}
    /\ now = SetMin(SysClockDates)
    /\ tz = 0
    /\ resp = NoResponse
    /\ regression = NewRegression
    /\ users = Users
    /\ auth = NoAuth
    /\ dashboard = NoDashboard
    /\ inflight = NoSummaryRequest
    /\ observed = {}

NextConcurrent ==
    \/ \E u \in Users, s \in ConcurrentStarts : SummaryStart(u, s, {})
    \/ SummaryIncome
    \/ SummaryExpenses
    \/ SummaryCount
    \/ \E u \in Users, b \in ConcurrentBodies :
          Meanwhile(GenerateToken(u), LAMBDA v : CreateTransaction(v, b))
    \/ \E u \in Users, f \in ConcurrentFiles :
          Meanwhile(GenerateToken(u), LAMBDA v : UploadCsv(v, f))
    \/ \E u \in Users, i \in 1 .. MaxTx :
          Meanwhile(GenerateToken(u), LAMBDA v : DeleteTransaction(v, i))

SpecConcurrent == InitConcurrent /\ [][NextConcurrent]_vars

(* ---------------------- one user beside the others --------------------- *)
\* the documents of a user in the collection
UserDocs(S, user) == {t \in S : t.user = user}

\* the requests that read the caller's transactions: the analytics and ML
\* routes, the listing and the categories
ReadOps ==
    {"summary", "spending-by-category", "savings-projection", "monthly-trends",
     "predict-expenses", "spending-insights", "list-transactions", "categories"}

ReadHandler(op, v) ==
    CASE op = "summary" -> Summary(v, {}, {})
      [] op = "spending-by-category" -> SpendingByCategory(v, "expense", {}, {})
      [] op = "savings-projection" -> SavingsProjection(v, MaxMonthsParam)
      [] op = "monthly-trends" -> MonthlyTrends(v, MaxMonthsParam)
      [] op = "predict-expenses" -> PredictExpenses(v, MaxMonthsParam)
      [] op = "spending-insights" -> SpendingInsights(v, MaxMonthsParam)
      [] op = "list-transactions" ->
             ListTransactions(v, DefaultQuery.start, DefaultQuery.end, DefaultQuery.types,
                              DefaultQuery.categories, DefaultQuery.page,
                              DefaultQuery.limit, DefaultQuery.sortOrder)
      [] op = "categories" -> GetCategories(v)

\* a user reads; the first response seen is kept with the user's documents
Read(user, op) ==
    /\ \A o \in observed : o.user = user
    /\ Serve(GenerateToken(user), LAMBDA v : ReadHandler(op, v))
    /\ observed' = IF observed = {}
                   THEN {[user |-> user, docs |-> UserDocs(db, user), resp |-> resp']}
                   ELSE observed
    /\ UNCHANGED <<dashboard, inflight>>

\* a user other than the one watched creates, imports or deletes
Other(user, Handler(_)) ==
    /\ \E o \in observed : o.user # user
    /\ Route(GenerateToken(user), Handler)

\* documents of the two users from which the collection is drawn: u1's have
\* different dates and category totals, u2's share months and categories
\* with them
IsolationDocs ==
    {[id |-> MaxTx + 1, user |-> "u1", type |-> "expense", category |-> "Food",
      description |-> "d", amount |-> 1250, date |-> Date(2024, 11, 20)],
     [id |-> MaxTx + 2, user |-> "u1", type |-> "expense", category |-> "Rent",
      description |-> "d", amount |-> 3000, date |-> Date(2024, 12, 3)],
     [id |-> MaxTx + 3, user |-> "u1", type |-> "income", category |-> "Pay",
      description |-> "d", amount |-> 5000, date |-> Date(2025, 1, 3)],
     [id |-> MaxTx + 4, user |-> "u2", type |-> "expense", category |-> "Food",
      description |-> "d", amount |-> 700, date |-> Date(2024, 12, 20)],
     [id |-> MaxTx + 5, user |-> "u2", type |-> "income", category |-> "Pay",
      description |-> "d", amount |-> 900, date |-> Date(2024, 11, 3)]}

InitIsolation ==
    /\ \E mine \in {{}, UserDocs(IsolationDocs, "u1")},
          others \in SUBSET UserDocs(IsolationDocs, "u2") : db = mine \cup others
    /\ now = SetMin(SysClockDates)
    /\ tz = 0
    /\ resp = NoResponse
    /\ regression = NewRegression
    /\ users = Users
    /\ auth = NoAuth
    /\ dashboard = NoDashboard
    /\ inflight = NoSummaryRequest
    /\ observed = {}

NextIsolation ==
    \/ \E u \in Users, op \in ReadOps : Read(u, op)
    \/ \E u \in Users, b \in ConcurrentBodies :
          Other(u, LAMBDA v : CreateTransaction(v, b))
    \/ \E u \in Users, f \in ConcurrentFiles :
          Other(u, LAMBDA v : UploadCsv(v, f))
    \/ \E u \in Users : \E i \in {t.id : t \in UserDocs(db, u)} :
          Other(u, LAMBDA v : DeleteTransaction(v, i))

SpecIsolation == InitIsolation /\ [][NextIsolation]_vars

(* ------------------- the auth middleware in front of every route ------- *)
\* the instants at which the presented tokens were issued: one that has
\* expired well before the later clock instant, one that expires exactly at
\* it, one that expires the day after it and one issued at it
AuthTokenIats ==
    {Date(2025, 1, 10), Date(2025, 1, 24), Date(2025, 1, 25), Date(2025, 1, 31)}

\* nothing, garbage, or a token issued at or before the current instant to a
\* user who is registered or whose document is no longer in the collection
AuthTokens ==
    {NoToken, BadToken} \cup
    {SignedToken(u, i) : u \in Users, i \in {j \in AuthTokenIats : j <= now}}

InitAuth ==
    /\ now \in SysClockDates
    /\ tz = 0
    /\ db \in {{}, OptionalDocs}
    /\ users \in {{"u1"}, Users}
    /\ resp = NoResponse
    /\ regression = NewRegression
    /\ auth = NoAuth
    /\ dashboard = NoDashboard
    /\ inflight = NoSummaryRequest
    /\ observed = {}

\* one request to one route with one token
NextAuth ==
    \/ /\ resp = NoResponse
       /\ \E tk \in AuthTokens, ty \in Types, c \in SysCategories, a \in SysAmounts,
             d \in OptDates(SysTxDates) :
             Route(tk, LAMBDA u : CreateTransaction(u, Body("d", a * MillsPerCent, ty, c, d)))
    \/ /\ resp = NoResponse
       /\ \E tk \in AuthTokens, f \in SysCsvFiles : Route(tk, LAMBDA u : UploadCsv(u, f))
    \/ /\ resp = NoResponse
       /\ \E tk \in AuthTokens, id \in {t.id : t \in OptionalDocs} :
             Route(tk, LAMBDA u : DeleteTransaction(u, id))
    \/ /\ resp = NoResponse
       /\ \E tk \in AuthTokens : Route(tk, LAMBDA u : Summary(u, {}, {}))
    \/ /\ resp = NoResponse
       /\ \E tk \in AuthTokens, ty \in Types :
             Route(tk, LAMBDA u : SpendingByCategory(u, ty, {}, {}))
    \/ /\ resp = NoResponse
       /\ \E tk \in AuthTokens, m \in SysMonths :
             Route(tk, LAMBDA u : SavingsProjection(u, m))
    \/ /\ resp = NoResponse
       /\ \E tk \in AuthTokens, m \in SysMonths :
             Route(tk, LAMBDA u : MonthlyTrends(u, m))
    \/ /\ resp = NoResponse
       /\ \E tk \in AuthTokens, m \in MonthsParams :
             Route(tk, LAMBDA u : PredictExpenses(u, m))
    \/ /\ resp = NoResponse
       /\ \E tk \in AuthTokens, m \in SysMonths :
             Route(tk, LAMBDA u : SpendingInsights(u, m))

SpecAuth == InitAuth /\ [][NextAuth]_vars

(* ======================= properties: forecasting ======================= *)
\* the response in hand answers a predict-expenses request served at the
\* current instant
IsPrediction == resp.req.op = "predict-expenses" /\ resp.req.at = now
PredictionOK == IsPrediction /\ resp.status = 200

\* the monthly expense series reported by the response (analysis.dataPoints)
SeriesOf(r) ==
    [i \in 1 .. Len(r.data.analysis.dataPoints) |-> r.data.analysis.dataPoints[i].expenses]

\* the calendar months of the analysis window in which the user has expenses
ExpenseMonths(user, months) ==
    {MonthIdx(t.date) :
        t \in {d \in db : /\ d.user = user
                          /\ d.type = "expense"
                          /\ d.date >= WindowStart(months, PredictMaxMonths)
                          /\ d.date <= now}}

\* reference ordinary least squares over x = 0 .. n-1, in the expanded form
\*   slope = (n Sxy - Sx Sy) / (n Sxx - Sx^2), intercept = (Sy - slope Sx) / n
RefSx(y) == SumSeq([i \in 1 .. Len(y) |-> i - 1])
RefSy(y) == SumSeq(y)
RefSxy(y) == SumSeq([i \in 1 .. Len(y) |-> (i - 1) * y[i]])
RefSxx(y) == SumSeq([i \in 1 .. Len(y) |-> (i - 1) * (i - 1)])
RefSlope(y) ==
    RDiv(Rat(Len(y) * RefSxy(y) - RefSx(y) * RefSy(y)),
         Rat(Len(y) * RefSxx(y) - RefSx(y) * RefSx(y)))
RefIntercept(y) ==
    RDiv(RSub(Rat(RefSy(y)), RMul(RefSlope(y), Rat(RefSx(y)))), Rat(Len(y)))
\* the reference line's value at x
RefAt(y, xv) == RAdd(RMul(RefSlope(y), Rat(xv)), RefIntercept(y))
RefClamped(y) == IF RLess(RefAt(y, Len(y)), RZero) THEN RZero ELSE RefAt(y, Len(y))

\* the integer p (hundredths) is v rounded to the nearest hundredth, ties up
IsRounded(p, v) ==
    /\ (2 * p - 1) * v[2] <= 2 * v[1]
    /\ 2 * v[1] < (2 * p + 1) * v[2]

\* C1: a predict-expenses request of a user with expenses in fewer than two
\* calendar months of the window is answered with the insufficient-data error
\* (400), carries no prediction, and fit() was not called (so no 500).
C1_InsufficientData ==
    (IsPrediction /\ Cardinality(ExpenseMonths(resp.req.user, resp.req.months)) < 2)
        => /\ resp.status = 400
           /\ resp.success = FALSE
           /\ "data" \notin DOMAIN resp
           /\ regression.called = FALSE

\* exactly one month of expenses in the window, answered 400
C1_Witness ==
    /\ IsPrediction
    /\ Cardinality(ExpenseMonths(resp.req.user, resp.req.months)) = 1
    /\ resp.status = 400

\* C2: on every successful prediction the fitted slope and intercept are those
\* of reference OLS over x = 0 .. n-1 (positions, whatever the calendar gaps)
\* and the reported series, and fit's denominator was not zero.
C2_FitIsOLS ==
    PredictionOK =>
        /\ regression.called /\ ~regression.threw
        /\ regression.denominator # RZero
        /\ regression.slope = RefSlope(SeriesOf(resp))
        /\ regression.intercept = RefIntercept(SeriesOf(resp))

\* a fit over three points with a calendar gap between two of them and a
\* slope that is not an integer
C2_Witness ==
    /\ PredictionOK
    /\ \E i \in 1 .. Len(resp.data.analysis.dataPoints) - 1 :
          LET a == resp.data.analysis.dataPoints[i].month
              b == resp.data.analysis.dataPoints[i + 1].month
          IN  (12 * b[1] + b[2]) - (12 * a[1] + a[2]) > 1
    /\ regression.slope[2] # 1

\* C3 as stated: the returned prediction equals max(0, slope * n + intercept)
\* and is not negative.
C3_Original ==
    PredictionOK =>
        /\ Rat(resp.data.prediction) = RefClamped(SeriesOf(resp))
        /\ resp.data.prediction >= 0

\* C3 amended: the returned prediction is max(0, slope * n + intercept) rounded
\* to two decimals (to the nearest hundredth, a tie going up), and is never
\* negative.
C3_PredictionClamped ==
    PredictionOK =>
        /\ IsRounded(resp.data.prediction, RefClamped(SeriesOf(resp)))
        /\ resp.data.prediction >= 0

\* a decreasing series whose extrapolation is negative, answered 0
C3_Witness ==
    /\ PredictionOK
    /\ RLess(RefAt(SeriesOf(resp), Len(SeriesOf(resp))), RZero)
    /\ resp.data.prediction = 0

\* the series lies on the line y[1] + (y[2] - y[1]) * x
OnLine(y) == \A i \in 1 .. Len(y) : y[i] = y[1] + (y[2] - y[1]) * (i - 1)
LineAt(y, xv) == y[1] + (y[2] - y[1]) * xv

\* C4 as stated: a series on a line y = a + b x gives slope b, intercept a,
\* prediction max(0, a + b n) and confidence 100.
C4_Original ==
    (PredictionOK /\ OnLine(SeriesOf(resp))) =>
        LET y == SeriesOf(resp)
        IN  /\ regression.slope = Rat(y[2] - y[1])
            /\ regression.intercept = Rat(y[1])
            /\ resp.data.prediction = (IF LineAt(y, Len(y)) < 0 THEN 0 ELSE LineAt(y, Len(y)))
            /\ resp.data.confidence = 100 * 100

\* C4 amended: a series on a line y = a + b x gives slope b, intercept a and
\* prediction max(0, a + b n); the confidence is 100 when b # 0 and 0 when
\* b = 0 (a constant series).
C4_ExactLine ==
    (PredictionOK /\ OnLine(SeriesOf(resp))) =>
        LET y == SeriesOf(resp)
        IN  /\ regression.slope = Rat(y[2] - y[1])
            /\ regression.intercept = Rat(y[1])
            /\ resp.data.prediction = (IF LineAt(y, Len(y)) < 0 THEN 0 ELSE LineAt(y, Len(y)))
            /\ resp.data.confidence = (IF y[2] = y[1] THEN 0 ELSE 100 * 100)

\* three or more points on a rising line, reported with confidence 100
C4_Witness ==
    /\ PredictionOK
    /\ Len(SeriesOf(resp)) >= 3
    /\ OnLine(SeriesOf(resp))
    /\ SeriesOf(resp)[2] > SeriesOf(resp)[1]
    /\ resp.data.confidence = 100 * 100

\* reference sums of squares about the reference line and about the mean
RefSSRes(y) ==
    RSumSeq([i \in 1 .. Len(y) |->
        LET e == RSub(Rat(y[i]), RefAt(y, i - 1)) IN RMul(e, e)])
\* n * SStot = n * Syy - Sy^2
RefSSTot(y) ==
    RDiv(Rat(Len(y) * SumSeq([i \in 1 .. Len(y) |-> y[i] * y[i]]) - RefSy(y) * RefSy(y)),
         Rat(Len(y)))
Clamp01(q) == IF RLess(q, RZero) THEN RZero ELSE IF RLess(Rat(1), q) THEN Rat(1) ELSE q

\* C5 as stated: confidence = 100 * (1 - SSres / SStot) clamped to [0, 100]
\* (taken where SStot # 0), and 0 <= confidence <= 100.
C5_Original ==
    PredictionOK =>
        LET y == SeriesOf(resp)
        IN  /\ RefSSTot(y) # RZero =>
                   RDiv(Rat(resp.data.confidence), Rat(100)) =
                       RMul(Rat(100), Clamp01(RSub(Rat(1), RDiv(RefSSRes(y), RefSSTot(y)))))
            /\ resp.data.confidence >= 0
            /\ resp.data.confidence <= 100 * 100

\* C5 amended: confidence is 100 * R^2 clamped to [0, 100] and rounded to two
\* decimals, where R^2 = 1 - SSres / SStot when SStot # 0 and R^2 = 0 when
\* SStot = 0; it always lies in [0, 100].
C5_ConfidenceRange ==
    PredictionOK =>
        LET y == SeriesOf(resp)
            r2 == IF RefSSTot(y) # RZero
                  THEN RSub(Rat(1), RDiv(RefSSRes(y), RefSSTot(y)))
                  ELSE RZero
        IN  /\ IsRounded(resp.data.confidence, RMul(Rat(100 * 100), Clamp01(r2)))
            /\ resp.data.confidence >= 0
            /\ resp.data.confidence <= 100 * 100

\* a fit that is neither perfect nor worthless
C5_Witness ==
    /\ PredictionOK
    /\ resp.data.confidence > 0
    /\ resp.data.confidence < 100 * 100

\* C6 as stated: direction is increasing / decreasing / stable as the slope is
\* positive / negative / zero, and strength = |slope|.
C6_Original ==
    PredictionOK =>
        LET sl == RefSlope(SeriesOf(resp))
        IN  /\ resp.data.trend.direction = "increasing" <=> RLess(RZero, sl)
            /\ resp.data.trend.direction = "decreasing" <=> RLess(sl, RZero)
            /\ resp.data.trend.direction = "stable" <=> sl = RZero
            /\ Rat(resp.data.trend.strength) = RAbs(sl)

\* C6 amended: the direction is as stated, and strength is |slope| rounded to
\* two decimals.
C6_Trend ==
    PredictionOK =>
        LET sl == RefSlope(SeriesOf(resp))
        IN  /\ resp.data.trend.direction = "increasing" <=> RLess(RZero, sl)
            /\ resp.data.trend.direction = "decreasing" <=> RLess(sl, RZero)
            /\ resp.data.trend.direction = "stable" <=> sl = RZero
            /\ IsRounded(resp.data.trend.strength, RAbs(sl))

\* a series that is not constant and has slope zero, reported stable
C6_Witness ==
    /\ PredictionOK
    /\ resp.data.trend.direction = "stable"
    /\ \E i \in 1 .. Len(SeriesOf(resp)) : SeriesOf(resp)[i] # SeriesOf(resp)[1]

\* the mean of the last min(3, n) values of the series
RefRecentMean(y) ==
    LET idx == {i \in 1 .. Len(y) : i > Len(y) - 3}
    IN  RDiv(Rat(SumSeq([i \in 1 .. Len(y) |-> IF i \in idx THEN y[i] ELSE 0])),
             Rat(Cardinality(idx)))

\* C7 as stated: recentAverage is the mean of the last min(3, n) monthly
\* totals and difference = prediction - recentAverage of the same response.
C7_Original ==
    PredictionOK =>
        /\ Rat(resp.data.comparison.recentAverage) = RefRecentMean(SeriesOf(resp))
        /\ resp.data.comparison.difference =
               resp.data.prediction - resp.data.comparison.recentAverage

\* C7 amended: recentAverage is that mean rounded to two decimals, and
\* difference is (the clamped prediction before rounding - that mean before
\* rounding) rounded to two decimals.
C7_Comparison ==
    PredictionOK =>
        /\ IsRounded(resp.data.comparison.recentAverage, RefRecentMean(SeriesOf(resp)))
        /\ IsRounded(resp.data.comparison.difference,
                     RSub(RefClamped(SeriesOf(resp)), RefRecentMean(SeriesOf(resp))))

\* four data points whose first differs from the mean of the last three
C7_Witness ==
    /\ PredictionOK
    /\ Len(SeriesOf(resp)) = 4
    /\ Rat(SeriesOf(resp)[1]) # RefRecentMean(SeriesOf(resp))

(* ======================= properties: aggregation ======================= *)
IsByCategory == resp.req.op = "spending-by-category" /\ resp.req.at = now
IsSummary == resp.req.op = "summary" /\ resp.req.at = now
IsMonthly ==
    /\ resp.req.op \in {"savings-projection", "monthly-trends"}
    /\ resp.req.at = now

CategoryTotalsSum(r) ==
    SumSeq([i \in 1 .. Len(r.data.categories) |-> r.data.categories[i].total])

\* the total that the summary reports for a kind
SummaryTotal(data, kind) ==
    IF kind = "income" THEN data.totalIncome ELSE data.totalExpenses

\* C8: the category totals of a spending-by-category response add up to its
\* totalAmount and to the total that the summary reports for the same user,
\* kind and date range; and each total of a summary response is the sum of the
\* category totals for its user, kind and range.
C8_CategoryTotalsMatchSummary ==
    /\ (IsByCategory /\ resp.req.type \in Types) =>
          /\ CategoryTotalsSum(resp) = resp.data.totalAmount
          /\ resp.data.totalAmount =
                 SummaryTotal(SummaryData(resp.req.user, resp.req.startDate,
                                          resp.req.endDate), resp.req.type)
    /\ IsSummary =>
          \A kind \in Types :
              SummaryTotal(resp.data, kind) =
                  LET G == CategoryGroups(Match(db, resp.req.user, {kind},
                                                resp.data.period.startDate,
                                                resp.data.period.endDate))
                  IN  SumAmount({[amount |-> g.total, id |-> g.id] : g \in G})

\* a breakdown over a closed date range with two categories, the range
\* leaving out an expense of the caller
C8_Witness ==
    /\ IsByCategory
    /\ resp.req.type = "expense"
    /\ resp.req.startDate # {} /\ resp.req.endDate # {}
    /\ Len(resp.data.categories) = 2
    /\ \E t \in db : /\ t.user = resp.req.user
                     /\ t.type = "expense"
                     /\ ~InRange(t.date, resp.req.startDate, resp.req.endDate)

PercentagesSum(r) ==
    SumSeq([i \in 1 .. Len(r.data.categories) |-> r.data.categories[i].percentage])

\* C9 as stated: each percentage equals 100 * total / (sum of the totals); they
\* add up to 100 within rounding when the sum is positive and are all 0 when
\* it is 0.
C9_Original ==
    IsByCategory =>
        LET n == Len(resp.data.categories)
            sum == CategoryTotalsSum(resp)
        IN  /\ sum > 0 =>
                  /\ \A i \in 1 .. n :
                        resp.data.categories[i].percentage * sum =
                            100 * 100 * resp.data.categories[i].total
                  /\ 2 * Abs(PercentagesSum(resp) - 100 * 100) <= n
            /\ sum = 0 => \A i \in 1 .. n : resp.data.categories[i].percentage = 0

\* C9 amended: each percentage is 100 * total / (sum of the totals) rounded to
\* two decimals; with k categories and a positive sum the percentages add up
\* to 100 within k * 0.005; when the sum is 0 (only with no category at all)
\* every percentage is 0.
C9_Percentages ==
    IsByCategory =>
        LET n == Len(resp.data.categories)
            sum == CategoryTotalsSum(resp)
        IN  /\ sum > 0 =>
                  /\ \A i \in 1 .. n :
                        IsRounded(resp.data.categories[i].percentage,
                                  <<100 * 100 * resp.data.categories[i].total, sum>>)
                  /\ 2 * Abs(PercentagesSum(resp) - 100 * 100) <= n
            /\ sum = 0 => \A i \in 1 .. n : resp.data.categories[i].percentage = 0

\* three categories of equal totals: 33.33 each, 99.99 together
C9_Witness ==
    /\ IsByCategory
    /\ Len(resp.data.categories) = 3
    /\ PercentagesSum(resp) = 100 * 100 - 1

\* the buckets of a savings-projection or monthly-trends response
BucketsOf(r) ==
    IF r.req.op = "monthly-trends" THEN r.data.trends ELSE r.data.historical
\* the calendar month that a bucket's date names
BucketMonth(b) == <<b.date[1], b.date[2]>>
\* the calendar months in which the user has a transaction inside the window
MonthsWithTransactions(user, start) ==
    {MonthKey(t) : t \in {d \in db : d.user = user /\ d.date >= start /\ d.date <= now}}

\* C10: the buckets of a savings-projection or monthly-trends response are one
\* per calendar month in which the caller has a transaction inside the window:
\* none missing, none for a month without transactions, none twice, in
\* strictly ascending (year, month) order.
C10_Original ==
    IsMonthly =>
        LET b == BucketsOf(resp)
        IN  /\ {BucketMonth(b[i]) : i \in 1 .. Len(b)} =
                   MonthsWithTransactions(resp.req.user, resp.data.analysisPeriod.startDate)
            /\ \A i \in 1 .. Len(b) - 1 : KeyBefore(BucketMonth(b[i]), BucketMonth(b[i + 1]))

\* the same with the server's local time zone not east of UTC
C10_NotEastOfUTC == tz <= 0 => C10_Original

\* whatever the zone: as many buckets as months with transactions, their
\* dates strictly ascending
C10_CountAndOrder ==
    IsMonthly =>
        LET b == BucketsOf(resp)
        IN  /\ Len(b) = Cardinality(MonthsWithTransactions(
                              resp.req.user, resp.data.analysisPeriod.startDate))
            /\ \A i \in 1 .. Len(b) - 1 :
                  \/ KeyBefore(BucketMonth(b[i]), BucketMonth(b[i + 1]))
                  \/ /\ BucketMonth(b[i]) = BucketMonth(b[i + 1])
                     /\ b[i].date[3] < b[i + 1].date[3]

\* the ceiling of the months parameter on the route that answered
CapOf(op) == IF op = "monthly-trends" THEN TrendsMaxMonths ELSE SavingsMaxMonths

\* C11: savings-projection and predict-expenses return at most min(m, 12)
\* monthly buckets / data points and monthly-trends at most min(m, 24), for
\* the requested months value m.
C11_Original ==
    /\ IsMonthly =>
          Len(BucketsOf(resp)) <= Min(resp.req.months, CapOf(resp.req.op))
    /\ PredictionOK =>
          /\ resp.data.analysis.monthsAnalyzed <= Min(resp.req.months, PredictMaxMonths)
          /\ Len(resp.data.analysis.dataPoints) <= Min(resp.req.months, PredictMaxMonths)

\* what the window does bound: it runs from the clock's day-of-month
\* min(m, cap) months back to the clock, so it meets at most min(m, cap) + 1
\* calendar months
C11_WindowMonths ==
    /\ IsMonthly =>
          Len(BucketsOf(resp)) <= Min(resp.req.months, CapOf(resp.req.op)) + 1
    /\ PredictionOK =>
          Len(resp.data.analysis.dataPoints) <= Min(resp.req.months, PredictMaxMonths) + 1

\* a response with one bucket more than min(m, cap)
C11_OneMore ==
    \/ IsMonthly /\ Len(BucketsOf(resp)) = Min(resp.req.months, CapOf(resp.req.op)) + 1
    \/ PredictionOK
          /\ Len(resp.data.analysis.dataPoints) = Min(resp.req.months, PredictMaxMonths) + 1

\* the caller's transactions of one kind in one calendar month of the window
WindowDocs(user, start, key, kind) ==
    {t \in db : /\ t.user = user
                /\ t.type = kind
                /\ t.date >= start /\ t.date <= now
                /\ YearOf(t.date) = key[1] /\ MonthOf(t.date) = key[2]}

\* C12: the buckets of a savings-projection or monthly-trends response are,
\* in ascending order, the calendar months in which the caller has a
\* transaction inside the window; each bucket's income and expenses are the
\* sums of the amounts of the caller's income and expense transactions of that
\* month inside the window, as persisted when the request is served, and its
\* savings = income - expenses.
C12_SavingsPerBucket ==
    IsMonthly =>
        LET b == BucketsOf(resp)
            start == resp.data.analysisPeriod.startDate
            keys == SortKeys(MonthsWithTransactions(resp.req.user, start))
        IN  /\ Len(b) = Len(keys)
            /\ \A i \in 1 .. Len(b) :
                  /\ b[i].income = SumAmount(WindowDocs(resp.req.user, start, keys[i], "income"))
                  /\ b[i].expenses = SumAmount(WindowDocs(resp.req.user, start, keys[i], "expense"))
                  /\ b[i].savings = b[i].income - b[i].expenses

\* two buckets, one with income and larger expenses (negative savings), while
\* the caller has a transaction before the window and another user has one
\* inside it
C12_Witness ==
    /\ IsMonthly
    /\ Len(BucketsOf(resp)) = 2
    /\ \E i \in 1 .. 2 :
          /\ BucketsOf(resp)[i].income > 0
          /\ BucketsOf(resp)[i].savings < 0
    /\ \E t \in db : t.user = resp.req.user /\ t.date < resp.data.analysisPeriod.startDate
    /\ \E t \in db : /\ t.user # resp.req.user
                     /\ t.date >= resp.data.analysisPeriod.startDate
                     /\ t.date <= now

\* the caller's transactions dated within the reported period, each bound
\* optional and inclusive
PeriodDocs(user, period) ==
    {t \in db : /\ t.user = user
                /\ \A s \in period.startDate : s <= t.date
                /\ \A e \in period.endDate : t.date <= e}

\* C13: a summary response carries totalIncome = the sum of the amounts of the
\* caller's income transactions with startDate <= date <= endDate (each bound
\* optional, both inclusive), totalExpenses likewise for expenses, netSavings
\* = totalIncome - totalExpenses and transactionCount = the number of the
\* caller's transactions of either kind in that range.
C13_SummaryTotals ==
    IsSummary =>
        LET D == PeriodDocs(resp.req.user, resp.data.period)
        IN  /\ resp.status = 200
            /\ resp.data.totalIncome = SumAmount({t \in D : t.type = "income"})
            /\ resp.data.totalExpenses = SumAmount({t \in D : t.type = "expense"})
            /\ resp.data.netSavings = resp.data.totalIncome - resp.data.totalExpenses
            /\ resp.data.transactionCount = Cardinality(D)

\* a summary over a closed range with a transaction dated exactly at each
\* bound, one of the caller before the range and one of another user inside it
C13_Witness ==
    /\ IsSummary
    /\ resp.data.period.startDate # {} /\ resp.data.period.endDate # {}
    /\ \E t \in db : t.user = resp.req.user /\ t.date \in resp.data.period.startDate
    /\ \E t \in db : t.user = resp.req.user /\ t.date \in resp.data.period.endDate
    /\ \E t \in db : /\ t.user = resp.req.user
                     /\ \E s \in resp.data.period.startDate : t.date < s
    /\ \E t \in db : /\ t.user # resp.req.user
                     /\ t \in PeriodDocs(t.user, resp.data.period)
    /\ resp.data.transactionCount >= 2

\* C14: when no transaction of the caller matches the filter, the operation
\* succeeds and returns empty / zero results: summary all zeros,
\* spending-by-category an empty list with totalAmount 0, monthly-trends and
\* savings-projection no bucket, and savings-projection a null projection.
C14_EmptyResults ==
    /\ (IsSummary /\ PeriodDocs(resp.req.user, resp.data.period) = {}) =>
          /\ resp.status = 200 /\ resp.success
          /\ resp.data.totalIncome = 0
          /\ resp.data.totalExpenses = 0
          /\ resp.data.netSavings = 0
          /\ resp.data.transactionCount = 0
    /\ (IsByCategory
          /\ {t \in PeriodDocs(resp.req.user, resp.req) : t.type = resp.req.type} = {}) =>
          /\ resp.status = 200 /\ resp.success
          /\ resp.data.categories = <<>>
          /\ resp.data.totalAmount = 0
    /\ (IsMonthly
          /\ MonthsWithTransactions(resp.req.user, resp.data.analysisPeriod.startDate) = {}) =>
          /\ resp.status = 200 /\ resp.success
          /\ BucketsOf(resp) = <<>>
          /\ resp.req.op = "savings-projection" => resp.data.projection = {}

\* a savings-projection answered with no bucket and a null projection to a
\* caller whose transactions all lie before the window, while another user
\* has transactions inside it
C14_Witness ==
    /\ IsMonthly
    /\ resp.req.op = "savings-projection"
    /\ resp.data.historical = <<>>
    /\ resp.data.projection = {}
    /\ \E t \in db : t.user = resp.req.user
    /\ \E t \in db : t.user # resp.req.user /\ t.date >= resp.data.analysisPeriod.startDate

(* ======================= properties: authentication ==================== *)
\* the number of days from the first day of the universe to a date
RECURSIVE DaysBeforeMonth(_)
DaysBeforeMonth(mi) ==
    IF mi <= FirstMonthIdx THEN 0 ELSE DaysInMonth(mi - 1) + DaysBeforeMonth(mi - 1)
DayNumber(date) == DaysBeforeMonth(MonthIdx(date)) + DayOf(date)

\* a token is valid at an instant for a user collection: it was signed by the
\* server less than seven days before, for a user in the collection
ValidToken(token, at, U) ==
    /\ token.present /\ token.signed
    /\ DayNumber(at) - DayNumber(token.iat) < 7
    /\ token.userId \in U

\* a step in which the auth middleware receives a request
AuthStep == now' = now /\ auth'.ran

\* C15: a request without a valid, unexpired token of an existing user is
\* answered 401 by the middleware, next() is not called, the response carries
\* no data and nothing persisted changes; a request with a valid token has
\* next() called exactly once and is served with req.user the token's user.
C15_AuthRequired ==
    [][AuthStep =>
          IF ValidToken(auth'.token, now, users)
          THEN /\ auth'.nextCalls = 1
               /\ resp'.req.op # "auth"
               /\ resp'.req.user = auth'.token.userId
          ELSE /\ auth'.nextCalls = 0
               /\ resp'.status = 401
               /\ resp'.success = FALSE
               /\ "data" \notin DOMAIN resp'
               /\ db' = db /\ users' = users]_vars

\* a token of a registered user that expired exactly at the current instant,
\* answered 401 while the user has transactions
C15_Witness ==
    /\ auth.ran
    /\ auth.token.signed
    /\ auth.token.userId \in users
    /\ DayNumber(auth.at) - DayNumber(auth.token.iat) = 7
    /\ resp.status = 401
    /\ \E t \in db : t.user = auth.token.userId

\* a token that expires the day after the current instant, in the next month,
\* accepted
C15_WitnessAccepted ==
    /\ auth.ran
    /\ DayNumber(auth.at) - DayNumber(auth.token.iat) = 6
    /\ auth.nextCalls = 1
    /\ resp.status = 200

(* ======================= properties: frame and freshness =============== *)
AnalyticsOps ==
    {"summary", "spending-by-category", "savings-projection", "monthly-trends",
     "predict-expenses", "spending-insights"}

\* C16: a step that serves an analytics or ML request, with whatever outcome
\* (200, the 400 of insufficient data, 500, or the middleware's 401), leaves
\* the persisted transactions and users unchanged.
C16_ReadOnly ==
    [][resp'.req.op \in AnalyticsOps \cup {"auth"} => db' = db /\ users' = users]_vars

\* a predict-expenses request answered with the insufficient-data error while
\* transactions of two registered users are persisted
C16_Witness ==
    /\ resp.req.op = "predict-expenses"
    /\ resp.status = 400
    /\ users = Users
    /\ \A u \in Users : \E t \in db : t.user = u

IsInsights == resp.req.op = "spending-insights" /\ resp.req.at = now

\* the caller's persisted transactions of one kind dated in the window of
\* k months that ends at the clock
InWindow(user, kind, k) ==
    {t \in db : /\ t.user = user /\ t.type = kind
                /\ t.date >= SetMonthBack(now, k) /\ t.date <= now}

SumOver(seq, Field(_)) == SumSeq([i \in 1 .. Len(seq) |-> Field(seq[i])])

\* C17: after any sequence of creates, imports and deletes, each analytics or
\* ML response is the aggregate of exactly the transactions persisted for the
\* caller when the request is served: the summary counts and adds up all of
\* them, the category breakdown adds up all of the kind, the monthly buckets,
\* the prediction's data points and the insights add up all those in the
\* window, and a prediction is refused exactly when fewer than two months of
\* the window hold an expense.
C17_NoCaching ==
    /\ IsSummary =>
          /\ resp.data.transactionCount =
                 Cardinality({t \in db : t.user = resp.req.user})
          /\ resp.data.totalIncome =
                 SumAmount({t \in db : t.user = resp.req.user /\ t.type = "income"})
          /\ resp.data.totalExpenses =
                 SumAmount({t \in db : t.user = resp.req.user /\ t.type = "expense"})
    /\ IsByCategory =>
          /\ resp.data.totalAmount =
                 SumAmount({t \in db : t.user = resp.req.user /\ t.type = resp.req.type})
          /\ SumOver(resp.data.categories, LAMBDA c : c.count) =
                 Cardinality({t \in db : t.user = resp.req.user /\ t.type = resp.req.type})
    /\ IsMonthly =>
          LET k == Min(resp.req.months, CapOf(resp.req.op))
          IN  /\ SumOver(BucketsOf(resp), LAMBDA b : b.income) =
                     SumAmount(InWindow(resp.req.user, "income", k))
              /\ SumOver(BucketsOf(resp), LAMBDA b : b.expenses) =
                     SumAmount(InWindow(resp.req.user, "expense", k))
    /\ IsPrediction =>
          LET D == InWindow(resp.req.user, "expense", Min(resp.req.months, PredictMaxMonths))
          IN  /\ resp.status = 400 <=> Cardinality({MonthIdx(t.date) : t \in D}) < 2
              /\ resp.status = 200 =>
                    /\ SumOver(resp.data.analysis.dataPoints, LAMBDA p : p.expenses) =
                           SumAmount(D)
                    /\ SumOver(resp.data.analysis.dataPoints, LAMBDA p : p.transactions) =
                           Cardinality(D)
    /\ IsInsights =>
          LET D == InWindow(resp.req.user, "expense", Min(resp.req.months, InsightsMaxMonths))
          IN  /\ resp.data.summary.totalSpending = SumAmount(D)
              /\ resp.data.summary.totalCategories = Cardinality({t.category : t \in D})

\* a summary that reports the two transactions the caller has by now, an
\* income and an expense, each created or imported since the start
C17_Witness ==
    /\ IsSummary
    /\ resp.data.transactionCount = 2
    /\ resp.data.totalIncome > 0
    /\ resp.data.totalExpenses > 0

(* ======================= properties: transactions ====================== *)
\* C18: an existing transaction is never changed: in every step each
\* persisted document either stays as it is, field for field, or disappears
\* in a step that is a successful delete of its id by its owner.
C18_Immutable ==
    [][\A t \in db :
          \/ t \in db'
          \/ /\ \A z \in db' : z.id # t.id
             /\ resp'.req.op = "delete-transaction"
             /\ resp'.status = 200
             /\ resp'.req.id = t.id
             /\ resp'.req.user = t.user]_vars

\* a delete by its owner has removed one document, and a document of the
\* other user, imported from a CSV file, is still there
C18_Witness ==
    /\ resp.req.op = "delete-transaction"
    /\ resp.status = 200
    /\ \A t \in db : t.id # resp.req.id
    /\ \E t \in db : t.user # resp.req.user /\ t.category = "Uncategorized"

\* the amount, in thousandths, that the request asked to store in a new
\* document: the body's amount, or the amount of a row of the uploaded file
RequestedAmounts(req) ==
    IF req.op = "create-transaction" THEN {req.body.amount}
    ELSE IF req.op = "upload-csv"
    THEN UNION {req.file.rows[i].amount : i \in 1 .. Len(req.file.rows)}
    ELSE {}

\* C19: every document that a step adds to the collection satisfies the data
\* model: a description of 1 to 200 characters, an amount above zero that is
\* the requested amount and has at most two fractional digits, a kind that is
\* income or expense, a category of 1 to 50 characters, a date not later
\* than the clock when it is stored, and as owner the caller that the
\* authentication of this request let through.
C19_DataModel ==
    [][\A t \in db' \ db :
          /\ Len(t.description) >= 1 /\ Len(t.description) <= 200
          /\ t.amount > 0
          /\ \E a \in RequestedAmounts(resp'.req) : a = 10 * t.amount
          /\ t.type \in {"income", "expense"}
          /\ Len(t.category) >= 1 /\ Len(t.category) <= 50
          /\ t.date <= now'
          /\ resp'.req.op \in {"create-transaction", "upload-csv"}
          /\ auth'.nextCalls = 1 /\ auth'.at = now'
          /\ t.user = auth'.token.userId /\ t.user = resp'.req.user]_vars

\* both ways of storing have acted: the collection holds a document stored
\* by create-transaction with texts at the length limits and the smallest
\* amount, dated on the day of the clock, and the latest request imported
\* one row of a file and skipped another
C19_Witness ==
    /\ resp.req.op = "upload-csv" /\ resp.status = 200
    /\ resp.data.imported >= 1 /\ resp.data.totalErrors >= 1
    /\ \E t \in db : /\ Len(t.description) = 200 /\ Len(t.category) = 50
                     /\ t.amount = 1 /\ t.date = now
    /\ \E t \in db : t.user = resp.req.user /\ t.category = "Uncategorized"

\* a step in which a delete-transaction request is handled: the clock stands
\* still and the step leaves the response to that request
DeleteStep == now' = now /\ resp'.req.op = "delete-transaction"

\* the caller's documents under the id of a delete request
OwnedUnder(req) == {t \in db : t.id = req.id /\ t.user = req.user}

\* what C20 asks of a delete-transaction step: not-found and an unchanged
\* collection when the caller owns no document under the id, and otherwise
\* the removal of exactly the one document under it
DeleteOutcome(req) ==
    IF OwnedUnder(req) = {}
    THEN resp'.status = 404 /\ db' = db
    ELSE /\ Cardinality(OwnedUnder(req)) = 1
         /\ db' = db \ OwnedUnder(req)
         /\ resp'.status = 200

\* C20: a delete-transaction with an id under which the caller owns nothing
\* (no such document, or a document of another user) answers not-found and
\* changes no document; with an id the caller owns it removes that document
\* and no other.
C20_Original ==
    [][DeleteStep => DeleteOutcome(resp'.req)]_vars

\* the same for the ids that cast to an ObjectId
C20_WellFormed ==
    [][DeleteStep /\ IsObjectId(resp'.req.id) => DeleteOutcome(resp'.req)]_vars

\* a delete under another user's id was answered not-found and that user's
\* document is still there
C20_WitnessForeign ==
    /\ resp.req.op = "delete-transaction" /\ resp.status = 404
    /\ \E t \in db : t.id = resp.req.id /\ t.user # resp.req.user

\* a delete under a malformed id was answered 500
C20_WitnessMalformed ==
    /\ resp.req.op = "delete-transaction" /\ resp.status = 500
    /\ ~IsObjectId(resp.req.id)
    /\ db # {}

\* a step in which a create-transaction request is handled
CreateStep == now' = now /\ resp'.req.op = "create-transaction"

\* a request body that violates the Transaction data model at the instant of
\* the request: an empty, blank or over-long description, a non-positive
\* amount or one with more than two fractional digits, a kind that is neither
\* income nor expense, an empty or over-long category, a date in the future
ViolatesDataModel(body, at) ==
    \/ Len(Trim(body.description)) = 0
    \/ Len(body.description) > 200
    \/ body.amount <= 0
    \/ body.amount % 10 # 0
    \/ body.type \notin {"income", "expense"}
    \/ Len(body.category) = 0
    \/ Len(body.category) > 50
    \/ \E d \in body.date : d > at

\* C21: a create-transaction whose body violates the data model is answered
\* with the validation error (400) and stores nothing.
C21_Original ==
    [][CreateStep /\ ViolatesDataModel(resp'.req.body, now)
          => resp'.status = 400 /\ db' = db]_vars

\* such a request is refused, with the validation error or with the internal
\* error, and stores nothing
C21_Refused ==
    [][CreateStep /\ ViolatesDataModel(resp'.req.body, now)
          => resp'.status \in {400, 500} /\ db' = db]_vars

\* a body that violates the data model was answered with the internal error
C21_WitnessInternal ==
    /\ resp.req.op = "create-transaction" /\ resp.status = 500
    /\ ViolatesDataModel(resp.req.body, now)

\* a step in which an upload-csv request is handled, for a file that was
\* received, mapped and parsed
UploadStep ==
    /\ now' = now /\ resp'.req.op = "upload-csv"
    /\ resp'.req.file.present /\ resp'.req.file.mappingValid
    /\ ~resp'.req.file.parseErrors /\ resp'.req.file.rows # <<>>

\* a row that satisfies the Transaction data model at an instant, under the
\* file's mapping
RowValid(row, mapping, at) ==
    /\ Len(row.description) >= 1 /\ Len(row.description) <= 200
    /\ \E a \in row.amount : a > 0 /\ a % 10 = 0
    /\ \E d \in row.date : d <= at
    /\ RowType(row, mapping) \in {"income", "expense"}
    /\ Len(Trim(RowCategory(row, mapping))) >= 1
    /\ Len(Trim(RowCategory(row, mapping))) <= 50

\* the document that stores a row for a user
StoresRow(t, row, mapping, user) ==
    /\ t.user = user /\ t.description = row.description
    /\ row.amount = {10 * t.amount} /\ row.date = {t.date}
    /\ t.type = RowType(row, mapping)
    /\ t.category = Trim(RowCategory(row, mapping))

\* what C22 asks of an import: every valid row is stored, nothing else is, and
\* the counts reported are the number stored and the number of other rows
ImportOutcome(file, user) ==
    LET valid == {i \in 1 .. Len(file.rows) : RowValid(file.rows[i], file.mapping, now)}
    IN  /\ resp'.status = 200
        /\ db \subseteq db'
        /\ Cardinality(db' \ db) = Cardinality(valid)
        /\ \A i \in valid :
              \E t \in db' \ db : StoresRow(t, file.rows[i], file.mapping, user)
        /\ resp'.data.imported = Cardinality(db' \ db)
        /\ resp'.data.totalErrors = Len(file.rows) - Cardinality(valid)

\* C22: an import treats the rows of a file one by one: the valid rows are
\* stored whatever the other rows are, the others are skipped and counted,
\* and imported is the number of documents stored.
C22_Original ==
    [][UploadStep => ImportOutcome(resp'.req.file, resp'.req.user)]_vars

\* the same for the files none of whose rows is taken by the row loop and
\* then refused by the schema
C22_WhenNoRowRefusedBySchema ==
    [][UploadStep /\ (\A i \in 1 .. Len(resp'.req.file.rows) :
                         \/ RowRejected(resp'.req.file.rows[i])
                         \/ RowValid(resp'.req.file.rows[i], resp'.req.file.mapping, now))
          => ImportOutcome(resp'.req.file, resp'.req.user)]_vars

\* an import either stores every row that the row loop takes or stores
\* nothing and answers with the internal error
C22_AllOrNothing ==
    [][UploadStep =>
          \/ resp'.status = 500 /\ db' = db
          \/ /\ resp'.status = 200
             /\ resp'.data.imported = Cardinality(db' \ db)
             /\ resp'.data.imported + resp'.data.totalErrors = Len(resp'.req.file.rows)]_vars

\* a file with a valid row and a row that the schema refuses was answered
\* with the internal error
C22_WitnessInternal ==
    /\ resp.req.op = "upload-csv" /\ resp.status = 500
    /\ \E i \in 1 .. Len(resp.req.file.rows) :
          RowValid(resp.req.file.rows[i], resp.req.file.mapping, now)

(* ========================= properties: insights ======================== *)
\* C23: a spending-insights response for a caller without an expense in the
\* analysis window is a success with no insight, no category, a total
\* spending of zero and an average monthly spending that is the number zero.
C23_Original ==
    IsInsights /\ InWindow(resp.req.user, "expense",
                           Min(resp.req.months, InsightsMaxMonths)) = {}
        => /\ resp.status = 200
           /\ resp.data.insights = <<>>
           /\ resp.data.summary.totalCategories = 0
           /\ resp.data.summary.totalSpending = 0
           /\ resp.data.summary.averageMonthlySpending = {RZero}

\* the same response but for the average, which is not a number
C23_AverageNotANumber ==
    IsInsights /\ InWindow(resp.req.user, "expense",
                           Min(resp.req.months, InsightsMaxMonths)) = {}
        => /\ resp.status = 200
           /\ resp.data.insights = <<>>
           /\ resp.data.summary.totalCategories = 0
           /\ resp.data.summary.totalSpending = 0
           /\ resp.data.summary.averageMonthlySpending = {}

\* insights were served to a caller whose only expense lies before the window
C23_WitnessOutsideWindow ==
    /\ IsInsights
    /\ InWindow(resp.req.user, "expense", Min(resp.req.months, InsightsMaxMonths)) = {}
    /\ \E t \in db : t.user = resp.req.user /\ t.type = "expense"

(* =========================== properties: seed ========================== *)
\* a summary without date bounds served to the sample user
SampleSummary ==
    /\ IsSummary /\ resp.req.user = SampleUser
    /\ resp.data.period.startDate = {} /\ resp.data.period.endDate = {}

\* C24: once the seed script has run, whatever the collections held before,
\* the summary without date bounds of the sample user reports an income of
\* 3150.00, expenses of 1168.74 and net savings of 1981.26 (in cents here).
C24_Original ==
    SampleSummary
        => /\ resp.data.totalIncome = 315000
           /\ resp.data.totalExpenses = 116874
           /\ resp.data.netSavings = 198126

\* what the summary reports: the sums over sampleTransactions when the script
\* stored them, and zeros when its insertMany was refused
C24_SeededTotals ==
    SampleSummary
        => \/ /\ Cardinality(db) = Len(SampleTransactions)
              /\ resp.data.totalIncome = 565000
              /\ resp.data.totalExpenses = 125124
              /\ resp.data.netSavings = 439876
           \/ /\ db = {}
              /\ resp.data.totalIncome = 0
              /\ resp.data.totalExpenses = 0
              /\ resp.data.netSavings = 0

\* the script stored the sample transactions over a collection that held
\* other documents, and the sample user's summary was served
C24_WitnessSeeded ==
    /\ SampleSummary
    /\ Cardinality(db) = Len(SampleTransactions)
    /\ resp.data.transactionCount = Len(SampleTransactions)

(* ===================== properties: savings projection ================== *)
IsSavings == resp.req.op = "savings-projection" /\ resp.req.at = now

\* the savings of the caller in one calendar month of the window
SavingsIn(user, start, key) ==
    SumAmount(WindowDocs(user, start, key, "income"))
        - SumAmount(WindowDocs(user, start, key, "expense"))

C25_WitnessNull ==
    /\ IsSavings
    /\ Len(resp.data.historical) = 1
    /\ resp.data.projection = {}

\* the calendar months of the analysis window of an insights response in
\* which the caller has an expense, in ascending order, and the caller's
\* expenses of one of them
InsightMonths ==
    SortKeys({MonthKey(t) :
                 t \in InWindow(resp.req.user, "expense",
                                Min(resp.req.months, InsightsMaxMonths))})
InsightMonthTotal(key) ==
    SumAmount({t \in InWindow(resp.req.user, "expense",
                              Min(resp.req.months, InsightsMaxMonths)) : MonthKey(t) = key})
\* the totals of the last two of these months, when there are two
PreviousTotal == InsightMonthTotal(InsightMonths[Len(InsightMonths) - 1])
LastTotal == InsightMonthTotal(InsightMonths[Len(InsightMonths)])

\* the spending-trend insights of the response
TrendInsights ==
    SelectSeq(resp.data.insights, LAMBDA insight : insight.type = "trend")

\* the direction of every trend insight is up iff the last total is the
\* larger and down iff it is the smaller, and every monthly total is positive
TrendDirectionAndDivisor ==
    /\ \A i \in 1 .. Len(TrendInsights) :
          /\ TrendInsights[i].direction = "up" <=> LastTotal > PreviousTotal
          /\ TrendInsights[i].direction = "down" <=> LastTotal < PreviousTotal
    /\ \A i \in 1 .. Len(InsightMonths) : InsightMonthTotal(InsightMonths[i]) > 0

\* C26: a spending-insights response carries the spending-trend insight
\* exactly when the window has at least two months with expenses and
\* 100 * (last - previous) / previous exceeds 10 in absolute value; the
\* direction is up iff last > previous and down iff last < previous; every
\* monthly total, so every divisor, is positive.
C26_Original ==
    IsInsights =>
        /\ Len(TrendInsights) = 1 <=>
              /\ Len(InsightMonths) >= 2
              /\ 100 * Abs(LastTotal - PreviousTotal) > 10 * PreviousTotal
        /\ Len(TrendInsights) <= 1
        /\ TrendDirectionAndDivisor

\* C26 as amended: the insight is there exactly when the change rounded to
\* one decimal place exceeds 10 in absolute value: it is there when the
\* change is above 10.05, and only when it is at least 10.05.
C26_RoundedChange ==
    IsInsights =>
        /\ Len(TrendInsights) = 1 =>
              /\ Len(InsightMonths) >= 2
              /\ 2000 * Abs(LastTotal - PreviousTotal) >= 201 * PreviousTotal
        /\ (/\ Len(InsightMonths) >= 2
            /\ 2000 * Abs(LastTotal - PreviousTotal) > 201 * PreviousTotal)
              => Len(TrendInsights) = 1
        /\ Len(TrendInsights) <= 1
        /\ TrendDirectionAndDivisor

\* a response over three months with expenses that reports a decrease between
\* the last two, the first month's total being the smallest
C26_Witness ==
    /\ IsInsights
    /\ Len(InsightMonths) = 3
    /\ Len(TrendInsights) = 1
    /\ TrendInsights[1].direction = "down"
    /\ InsightMonthTotal(InsightMonths[1]) < LastTotal

\* a change between 10 and 10.05 percent, and no trend insight
C26_WitnessJustAbove ==
    /\ IsInsights
    /\ Len(InsightMonths) >= 2
    /\ 100 * Abs(LastTotal - PreviousTotal) > 10 * PreviousTotal
    /\ Len(TrendInsights) = 0

\* ---- C27 ----
\* the four other requests of the dashboard load have succeeded and the
\* prediction request was answered with the insufficient-data error
OnlyPredictionFailed ==
    /\ dashboard.pending = {}
    /\ dashboard.user # ""
    /\ \A r \in DashboardRequests \ {"predict-expenses"} :
           \E x \in dashboard.results[r] : x.status = 200 /\ x.success
    /\ \E x \in dashboard.results["predict-expenses"] :
           x.status = 400 /\ x.message = "Insufficient data for prediction"

\* C27: when the summary, spending-by-category, savings-projection and
\* categories requests succeed and predict-expenses answers with the
\* insufficient-data error, the data of the four is stored, the prediction
\* stays absent and no load error is set.
C27_Original ==
    OnlyPredictionFailed =>
        /\ dashboard.summary = {x.data : x \in dashboard.results["summary"]}
        /\ dashboard.spendingData = {x.data : x \in dashboard.results["spending-by-category"]}
        /\ dashboard.savingsData = {x.data : x \in dashboard.results["savings-projection"]}
        /\ dashboard.categories = UNION {x.data.categories : x \in dashboard.results["categories"]}
        /\ dashboard.prediction = {}
        /\ dashboard.error = {}

\* what the component does in that case: the rejected Promise.all leaves all
\* the data unset and the catch block sets the load error of status 400
C27_AllOrNothing ==
    OnlyPredictionFailed =>
        /\ dashboard.summary = {}
        /\ dashboard.spendingData = {}
        /\ dashboard.savingsData = {}
        /\ dashboard.categories = {}
        /\ dashboard.prediction = {}
        /\ dashboard.error = {LoadError(400)}
        /\ ~dashboard.loading

\* when all five requests succeed the data of all five is stored
C27_AllSucceeded ==
    (/\ dashboard.pending = {}
     /\ \A r \in DashboardRequests : \E x \in dashboard.results[r] : x.status = 200)
    => /\ dashboard.summary = {x.data : x \in dashboard.results["summary"]}
       /\ dashboard.prediction = {x.data : x \in dashboard.results["predict-expenses"]}
       /\ dashboard.error = {}

\* a load in which only the prediction failed although the user has
\* transactions to show
C27_WitnessOnlyPredictionFailed ==
    /\ OnlyPredictionFailed
    /\ \E x \in dashboard.results["summary"] : x.data.transactionCount > 0

\* ---- C28 ----
\* a summary request that ran among other requests has been answered
SummaryAnswered ==
    /\ inflight.pc = "idle"
    /\ inflight # NoSummaryRequest
    /\ resp.req.op = "summary"

\* the figures the collection state S gives for the answered request
FiguresIn(S) == SummaryOf(S, inflight.user, inflight.start, inflight.end)

C29_Isolation ==
    \A o \in observed :
        (/\ resp.req.op = o.resp.req.op
         /\ resp.req.user = o.user
         /\ UserDocs(db, o.user) = o.docs)
        => resp = o.resp

\* the writes of other users change neither the watched user's documents nor,
\* by C29_Isolation, the responses
C29_OthersLeaveDocs ==
    \A o \in observed : UserDocs(db, o.user) = o.docs

\* the same request answered again after the other user's documents changed,
\* for a user whose response shows data
C29_Witness ==
    \E o \in observed :
        /\ resp.req.op = o.resp.req.op
        /\ resp.req.op = "savings-projection"
        /\ resp.req.user = o.user
        /\ Len(resp.data.historical) >= 2
        /\ UserDocs(db, o.user) = o.docs
        /\ \E other \in Users \ {o.user} :
               /\ UserDocs(db, other) # {}
               /\ \E t \in UserDocs(db, other) : t.id <= MaxTx
               /\ \E t \in IsolationDocs : t.user = other /\ t \notin db

\* ---- C30 ----
\* the caller's transactions dated inside the window of a monthly-trends
\* response
TrendsWindowDocs ==
    Match(db, resp.req.user, Types, {resp.data.analysisPeriod.startDate},
          {resp.data.analysisPeriod.endDate})

\* C30: the income, the expenses and the transactionCount of the buckets of a
\* monthly-trends response add up to the total income, the total expenses and
\* the number of the caller's transactions dated inside the window; every such
\* transaction belongs to exactly one bucket and every bucket counts at least
\* one transaction.
C30_Conservation ==
    (resp.req.op = "monthly-trends" /\ resp.status = 200) =>
        LET trends == resp.data.trends
            n == Len(trends)
        IN  /\ SumSeq([i \in 1 .. n |-> trends[i].income])
                  = SumAmount(OfType(TrendsWindowDocs, "income"))
            /\ SumSeq([i \in 1 .. n |-> trends[i].expenses])
                  = SumAmount(OfType(TrendsWindowDocs, "expense"))
            /\ SumSeq([i \in 1 .. n |-> trends[i].transactionCount])
                  = Cardinality(TrendsWindowDocs)
            /\ \A t \in TrendsWindowDocs :
                   Cardinality({i \in 1 .. n : trends[i].date = DateLabel(MonthKey(t))}) = 1
            /\ \A i \in 1 .. n :
                   /\ trends[i].transactionCount >= 1
                   /\ \E t \in TrendsWindowDocs : trends[i].date = DateLabel(MonthKey(t))

\* a response of two or more buckets, one of them with an income and an
\* expense, over a collection that also holds a transaction of the caller
\* before the window and a transaction of another user
C30_Witness ==
    /\ resp.req.op = "monthly-trends"
    /\ resp.status = 200
    /\ Len(resp.data.trends) >= 2
    /\ \E i \in 1 .. Len(resp.data.trends) :
           /\ resp.data.trends[i].income > 0
           /\ resp.data.trends[i].expenses > 0
           /\ resp.data.trends[i].transactionCount >= 2
    /\ \E t \in db : t.user = resp.req.user /\ t \notin TrendsWindowDocs
    /\ \E t \in db : t.user # resp.req.user

====
